---- MODULE Spec2Model ----
(***************************************************************************)
(* Model of the Stremio -> Overseerr request addon (src/server.js and the  *)
(* variants under src/unnamed): the configuration codec, the request key,  *)
(* the pending-request table with its cooldown, the background submission  *)
(* to Overseerr and the placeholder video response.                        *)
(*                                                                         *)
(* JavaScript strings are TLA+ strings; a missing query parameter or       *)
(* header is the value undefined; JavaScript numbers are integers, with    *)
(* the reserved values null and NaN.                                       *)
(***************************************************************************)
EXTENDS Integers, Sequences, FiniteSets, TLC

VARIABLES
    now,              \* Date.now(), in milliseconds
    ticks,            \* number of clock advances so far (bounded)
    pendingRequests,  \* server.js:736  Map: requestKey -> timestamp of the dispatch
                      \* (server.js:2557, for /track-playback: the Set of request keys)
    requestResults,   \* part_002:16    Map: requestKey -> {processing} or the result
    tasks,            \* the background submissions started so far, in order
    posts,            \* every POST issued to a request server, in order
    handlers,         \* the trigger calls received so far, in order
    keyIn,            \* the two trigger calls whose request keys are computed
    keyOut,           \* their request keys, once computed
    streamCalls,      \* the stream listing calls received so far, in order
    codec             \* a configuration on its way through the encoder and the decoder

vars == <<now, ticks, pendingRequests, requestResults, tasks, posts, handlers, keyIn, keyOut, streamCalls, codec>>

-----------------------------------------------------------------------------
(* JavaScript values *)

undefined == "<undefined>"
null == -1000001
NaN == -1000000

\* JavaScript truthiness of a string-or-undefined value.
Truthy(v) == v # undefined /\ v # ""

\* String(v) as a template literal `${v}` renders it.
Str(v) == IF v = undefined THEN "undefined" ELSE v

\* v || d
OrElse(v, d) == IF Truthy(v) THEN v ELSE d

CharAt(s, i) == SubSeq(s, i, i)

startsWith(s, p) == Len(s) >= Len(p) /\ SubSeq(s, 1, Len(p)) = p

Digits == "0123456789"

IsDigit(c) == \E i \in 1..10 : CharAt(Digits, i) = c

DigitVal(c) == (CHOOSE i \in 1..10 : CharAt(Digits, i) = c) - 1

RECURSIVE ParseDigits(_, _, _)
ParseDigits(s, i, acc) ==
    IF i > Len(s) \/ ~IsDigit(CharAt(s, i)) THEN acc
    ELSE ParseDigits(s, i + 1, acc * 10 + DigitVal(CharAt(s, i)))

\* parseInt(s) for strings without leading white space or a 0x prefix: an
\* optional sign, then the longest run of decimal digits; NaN when there is none.
parseInt(s) ==
    LET str  == Str(s)
        neg  == startsWith(str, "-")
        from == IF neg \/ startsWith(str, "+") THEN 2 ELSE 1
    IN  IF from > Len(str) \/ ~IsDigit(CharAt(str, from)) THEN NaN
        ELSE IF neg THEN 0 - ParseDigits(str, from, 0)
        ELSE ParseDigits(str, from, 0)

\* s.replace(/\/$/, ''): removes one trailing slash, if there is one.
StripTrailingSlash(s) ==
    IF Len(s) > 0 /\ CharAt(s, Len(s)) = "/" THEN SubSeq(s, 1, Len(s) - 1) ELSE s

-----------------------------------------------------------------------------
(* parseStremioId (server.js:739-767) *)

\* id.includes(c) for a one-character c.
includes(s, c) == \E i \in 1..Len(s) : CharAt(s, i) = c

\* id.split(':'): the segments between the colons, empty ones included.
RECURSIVE SplitFrom(_, _, _)
SplitFrom(s, i, cur) ==
    IF i > Len(s) THEN <<cur>>
    ELSE IF CharAt(s, i) = ":" THEN <<cur>> \o SplitFrom(s, i + 1, "")
    ELSE SplitFrom(s, i + 1, cur \o CharAt(s, i))

split(s) == SplitFrom(s, 1, "")

\* /^\d+$/.test(s)
AllDigits(s) == Len(s) > 0 /\ \A i \in 1..Len(s) : IsDigit(CharAt(s, i))

\* The null that parseStremioId returns for an id it does not support.
nullParsedId == <<>>

\* A parser that takes for a TMDB id any id that begins with digits.
parseStremioIdLenient(id, type) ==
    LET parts == split(id)
    IN  IF type = "movie" /\ startsWith(id, "tt")
        THEN [imdbId |-> id, season |-> null, episode |-> null]
        ELSE IF type = "series" /\ includes(id, ":") /\ Len(parts) = 3
        THEN [imdbId |-> parts[1], season |-> parseInt(parts[2]), episode |-> parseInt(parts[3])]
        ELSE IF type = "series" /\ ~includes(id, ":") /\ startsWith(id, "tt")
        THEN [imdbId |-> id, season |-> null, episode |-> null]
        ELSE IF parseInt(id) # NaN
        THEN [tmdbId |-> parseInt(id), season |-> null, episode |-> null]
        ELSE nullParsedId

parseStremioId(id, type) ==
    LET parts == split(id)
    IN  IF type = "movie" /\ startsWith(id, "tt")
        THEN [imdbId |-> id, season |-> null, episode |-> null]
        ELSE IF type = "series" /\ includes(id, ":") /\ Len(parts) = 3
        THEN [imdbId |-> parts[1], season |-> parseInt(parts[2]), episode |-> parseInt(parts[3])]
        ELSE IF type = "series" /\ ~includes(id, ":") /\ startsWith(id, "tt")
        THEN [imdbId |-> id, season |-> null, episode |-> null]
        ELSE IF AllDigits(id)
        THEN [tmdbId |-> parseInt(id), season |-> null, episode |-> null]
        ELSE nullParsedId

-----------------------------------------------------------------------------
(* Configuration codec: JSON text of a flat object of strings, in base64.  *)
(* The model covers printable ASCII text without quotes, backslashes or    *)
(* white space inside or around the values (code 96 is left out too).      *)

\* The characters with codes 32..95 and 97..126, in order.
PrintableLow == " !\"#$%&'()*+,-./0123456789:;<=>?@ABCDEFGHIJKLMNOPQRSTUVWXYZ[\\]^_"

PrintableHigh == "abcdefghijklmnopqrstuvwxyz{|}~"

IsPrintable(b) == b \in 32..95 \/ b \in 97..126

FromCharCode(b) == IF b <= 95 THEN CharAt(PrintableLow, b - 31) ELSE CharAt(PrintableHigh, b - 96)

Base64Chars == "ABCDEFGHIJKLMNOPQRSTUVWXYZabcdefghijklmnopqrstuvwxyz0123456789+/"

CharCode(c) ==
    IF \E i \in 1..Len(PrintableLow) : CharAt(PrintableLow, i) = c
    THEN 31 + (CHOOSE i \in 1..Len(PrintableLow) : CharAt(PrintableLow, i) = c)
    ELSE 96 + (CHOOSE i \in 1..Len(PrintableHigh) : CharAt(PrintableHigh, i) = c)

B64Char(n) == CharAt(Base64Chars, n + 1)

\* The 6-bit value of a base64 character, -1 for a character outside the
\* alphabet; Node's decoder also reads the URL-safe '-' and '_'.
B64Val(c) ==
    IF c = "-" THEN 62
    ELSE IF c = "_" THEN 63
    ELSE IF \E i \in 1..64 : CharAt(Base64Chars, i) = c
         THEN (CHOOSE i \in 1..64 : CharAt(Base64Chars, i) = c) - 1
    ELSE -1

\* The concatenation f[lo] \o ... \o f[hi] of strings or of sequences (`empty`
\* is the empty one), by halving.
RECURSIVE Concat(_, _, _, _)
Concat(f, lo, hi, empty) ==
    IF lo > hi THEN empty
    ELSE IF lo = hi THEN f[lo]
    ELSE Concat(f, lo, (lo + hi) \div 2, empty) \o Concat(f, (lo + hi) \div 2 + 1, hi, empty)

\* The four characters that encode the g-th group of three bytes of s.
B64Group(s, g) ==
    LET n  == Len(s) - 3 * (g - 1)
        b1 == CharCode(CharAt(s, 3 * g - 2))
        b2 == IF n >= 2 THEN CharCode(CharAt(s, 3 * g - 1)) ELSE 0
        b3 == IF n >= 3 THEN CharCode(CharAt(s, 3 * g)) ELSE 0
    IN  B64Char(b1 \div 4)
        \o B64Char((b1 % 4) * 16 + (b2 \div 16))
        \o (IF n >= 2 THEN B64Char((b2 % 16) * 4 + (b3 \div 64)) ELSE "=")
        \o (IF n >= 3 THEN B64Char(b3 % 64) ELSE "=")

\* btoa(text): three bytes to four characters, '=' padding at the end.
btoa(s) ==
    LET groups == (Len(s) + 2) \div 3
    IN  Concat([g \in 1..groups |-> B64Group(s, g)], 1, groups, "")

\* The 6-bit values of a token as Buffer.from(token, 'base64') reads them:
\* characters outside the alphabet are skipped, reading stops at the first '='.
Sextets(s) ==
    LET pads == {i \in 1..Len(s) : CharAt(s, i) = "="}
        end  == IF pads = {} THEN Len(s)
                ELSE (CHOOSE i \in pads : \A j \in pads : i <= j) - 1
    IN  Concat([i \in 1..end |-> IF B64Val(CharAt(s, i)) < 0 THEN <<>>
                                 ELSE <<B64Val(CharAt(s, i))>>], 1, end, <<>>)

\* Four sextets to three bytes; an incomplete last group gives the bytes it
\* holds in full.  Byte j starts at bit 8 (j - 1) of the sextets.
BytesOf(v) ==
    [j \in 1..((Len(v) * 6) \div 8) |->
        LET a == (8 * (j - 1)) \div 6 + 1
            o == (8 * (j - 1)) % 6
        IN  IF o = 0 THEN v[a] * 4 + (v[a + 1] \div 16)
            ELSE IF o = 2 THEN (v[a] % 16) * 16 + (v[a + 1] \div 4)
            ELSE (v[a] % 4) * 64 + v[a + 1]]

\* buffer.toString('utf8') for bytes of printable ASCII.
Utf8Text(bytes) ==
    Concat([i \in 1..Len(bytes) |-> IF IsPrintable(bytes[i]) THEN FromCharCode(bytes[i]) ELSE "?"],
           1, Len(bytes), "")

\* Any byte that is not printable ASCII makes the text one that JSON.parse
\* rejects, which ok = FALSE records.
Base64Decode(token) ==
    LET bytes == BytesOf(Sextets(token))
    IN  [ok |-> \A i \in 1..Len(bytes) : IsPrintable(bytes[i]), text |-> Utf8Text(bytes)]

\* JSON.stringify of an object given as its <<key, value>> pairs in order.
RECURSIVE JsonMembers(_)
JsonMembers(pairs) ==
    IF Len(pairs) = 0 THEN ""
    ELSE "\"" \o pairs[1][1] \o "\":\"" \o pairs[1][2] \o "\""
         \o (IF Len(pairs) > 1 THEN "," \o JsonMembers(Tail(pairs)) ELSE "")

JsonStringify(pairs) == "{" \o JsonMembers(pairs) \o "}"

\* The index of the first '"' of s at or after i, 0 when there is none or a
\* backslash comes first.
QuoteAt(s, i) ==
    LET stops == {j \in i..Len(s) : CharAt(s, j) = "\"" \/ CharAt(s, j) = "\\"}
        first == CHOOSE j \in stops : \A k \in stops : j <= k
    IN  IF stops = {} THEN 0 ELSE IF CharAt(s, first) = "\"" THEN first ELSE 0

\* Parses the members of an object from position i on; obj holds the members
\* read so far (a later duplicate key replaces the earlier value).
RECURSIVE ParseMembers(_, _, _)
ParseMembers(s, i, obj) ==
    LET k2 == QuoteAt(s, i + 1)
        v1 == k2 + 2
        v2 == QuoteAt(s, v1 + 1)
        key == SubSeq(s, i + 1, k2 - 1)
        val == SubSeq(s, v1 + 1, v2 - 1)
        put == [x \in DOMAIN obj \cup {key} |-> IF x = key THEN val ELSE obj[x]]
    IN  IF ~(i <= Len(s) /\ CharAt(s, i) = "\"") \/ k2 = 0 THEN [ok |-> FALSE]
        ELSE IF ~(v1 <= Len(s) /\ CharAt(s, k2 + 1) = ":" /\ CharAt(s, v1) = "\"") \/ v2 = 0
             THEN [ok |-> FALSE]
        ELSE IF v2 + 1 = Len(s) /\ CharAt(s, v2 + 1) = "}" THEN [ok |-> TRUE, value |-> put]
        ELSE IF v2 + 1 < Len(s) /\ CharAt(s, v2 + 1) = "," THEN ParseMembers(s, v2 + 2, put)
        ELSE [ok |-> FALSE]

\* JSON.parse for the texts the model covers: ok = FALSE is a thrown SyntaxError.
JsonParse(s) ==
    IF s = "{}" THEN [ok |-> TRUE, value |-> <<>>]
    ELSE IF Len(s) >= 2 /\ CharAt(s, 1) = "{" THEN ParseMembers(s, 2, <<>>)
    ELSE [ok |-> FALSE]

\* obj.key: undefined for a key the object does not have.
Field(obj, key) == IF key \in DOMAIN obj THEN obj[key] ELSE undefined

\* generateAddon (browser): btoa(JSON.stringify({tmdbKey, overseerrUrl, overseerrApi})).
generateAddon(tmdbKey, overseerrUrl, overseerrApi) ==
    btoa(JsonStringify(<< <<"tmdbKey", tmdbKey>>, <<"overseerrUrl", overseerrUrl>>,
                          <<"overseerrApi", overseerrApi>> >>))

\* Keeps the three required fields of a parsed configuration or gives null.
RequireFields(parsed) ==
    IF ~parsed.ok THEN <<>>
    ELSE IF ~Truthy(Field(parsed.value, "tmdbKey"))
            \/ ~Truthy(Field(parsed.value, "overseerrUrl"))
            \/ ~Truthy(Field(parsed.value, "overseerrApi"))
         THEN <<>>
    ELSE parsed.value

\* while (paddedConfig.length % 4 !== 0) paddedConfig += '='
RECURSIVE PadBase64(_)
PadBase64(s) == IF Len(s) % 4 = 0 THEN s ELSE PadBase64(s \o "=")

\* The null that decodeConfig returns, as an object: the object without
\* fields, which no successful decoding returns.
nullConfig == <<>>

\* decodeConfig (server.js:770): pad, decode, parse, require the three fields;
\* every failure is caught and gives null.
decodeConfig(configString) ==
    LET decoded == Base64Decode(PadBase64(Str(configString)))
        parsed  == IF decoded.ok THEN JsonParse(decoded.text) ELSE [ok |-> FALSE]
    IN  RequireFields(parsed)

\* decodeConfig of part_002:259-273: the same without the padding.
decodeConfigUnpadded(configString) ==
    LET decoded == Base64Decode(Str(configString))
    IN  RequireFields(IF decoded.ok THEN JsonParse(decoded.text) ELSE [ok |-> FALSE])

\* encodeConfig of part_002:275-285: the three fields and a version field,
\* as JSON, in base64 (Buffer's encoding of ASCII text is that of btoa).
encodeConfig(config) ==
    btoa(JsonStringify(<< <<"tmdbKey", config.tmdbKey>>, <<"overseerrUrl", config.overseerrUrl>>,
                          <<"overseerrApi", config.overseerrApi>>, <<"v", "1.0">> >>))

\* part_000:171-172: JSON.parse(base64url.decode(config)) and the
\* destructuring of the three fields, without a test of them.  ok = FALSE
\* is the exception that the handler catches.
decodeInline(config) ==
    LET decoded == Base64Decode(PadBase64(config))
        parsed  == IF decoded.ok THEN JsonParse(decoded.text) ELSE [ok |-> FALSE]
    IN  IF ~parsed.ok THEN [ok |-> FALSE]
        ELSE [ok |-> TRUE, tmdbKey |-> Field(parsed.value, "tmdbKey"),
              overseerrUrl |-> Field(parsed.value, "overseerrUrl"),
              overseerrApi |-> Field(parsed.value, "overseerrApi")]

-----------------------------------------------------------------------------
(* The External Request Client.  One invocation is a record st with        *)
(*   pc     where the async function stands: "tmdb" (awaiting the season   *)
(*          lookup), "https" (awaiting the first, HTTPS, POST of the       *)
(*          variant that tries both), "post" (awaiting the POST) or "done" *)
(*   body   the request body built so far                                  *)
(*   result the value returned (at "done")                                 *)
(*   out    the POSTs issued by the step just taken                        *)
(* and its arguments a: tmdbId, type, mediaName, seasonNumber, requestType,*)
(* userConfig, env (process.env).                                          *)

NoResult == [success |-> "pending"]

\* { mediaId: parseInt(tmdbId), mediaType: type === 'movie' ? 'movie' : 'tv' }
RequestBody(a) ==
    [mediaId |-> parseInt(a.tmdbId), mediaType |-> IF a.type = "movie" THEN "movie" ELSE "tv"]

\* requestBody.seasons = seasons
WithSeasons(body, seasons) ==
    [mediaId |-> body.mediaId, mediaType |-> body.mediaType, seasons |-> seasons]

\* The default parameter requestType = 'season'.
RequestTypeOf(a) == IF a.requestType = undefined THEN "season" ELSE a.requestType

OverseerrUrlOf(a) ==
    IF a.userConfig # nullConfig THEN Field(a.userConfig, "overseerrUrl")
    ELSE Field(a.env, "OVERSEERR_URL")

OverseerrApiOf(a) ==
    IF a.userConfig # nullConfig THEN Field(a.userConfig, "overseerrApi")
    ELSE Field(a.env, "OVERSEERR_API")

\* userConfig?.tmdbKey || process.env.TMDB_API_KEY || process.env.TMDB_KEY
TmdbKeyOf(a) ==
    OrElse(Field(a.userConfig, "tmdbKey"),
           OrElse(Field(a.env, "TMDB_API_KEY"), Field(a.env, "TMDB_KEY")))

Failure(body, error) ==
    [pc |-> "done", body |-> body, result |-> [success |-> FALSE, error |-> error], out |-> <<>>]

\* server.js:838-863: the configuration check, the URL normalisation and the
\* one POST of makeOverseerrRequest.
SendRequest(a, body) ==
    IF ~Truthy(OverseerrUrlOf(a)) \/ ~Truthy(OverseerrApiOf(a))
    THEN Failure(body, "Missing Overseerr configuration")
    ELSE [pc |-> "post", body |-> body, result |-> NoResult,
          out |-> << [url    |-> StripTrailingSlash(OverseerrUrlOf(a)) \o "/api/v1/request",
                      apiKey |-> OverseerrApiOf(a),
                      body   |-> body] >>]

\* The season list passed on as TMDB gave it, specials (season 0) included.
ValidSeasonsUnfiltered(seasons) == seasons

\* server.js:816-820: the season numbers of the TMDB answer that are finite
\* and greater than 0.
ValidSeasons(seasons) == SelectSeq(seasons, LAMBDA n : n # NaN /\ n > 0)

\* server.js:793-863, up to the first await.
makeOverseerrRequest(a) ==
    LET body == RequestBody(a)
    IN  IF a.type = "series" /\ RequestTypeOf(a) = "season" /\ a.seasonNumber # null
        THEN SendRequest(a, WithSeasons(body, <<a.seasonNumber>>))
        ELSE IF a.type = "series" /\ RequestTypeOf(a) = "series"
        THEN IF Truthy(TmdbKeyOf(a))
             THEN [pc |-> "tmdb", body |-> body, result |-> NoResult, out |-> <<>>]
             ELSE SendRequest(a, WithSeasons(body, <<>>))
        ELSE SendRequest(a, body)

\* server.js:812-835: the answer of the TMDB season lookup arrives.
\* r.kind: "ok" (with r.seasons, the season_number values), "notok", "throw".
makeOverseerrRequestTmdb(a, st, r) ==
    IF r.kind = "ok"
    THEN SendRequest(a, WithSeasons(st.body, ValidSeasons(r.seasons)))
    ELSE SendRequest(a, WithSeasons(st.body, <<>>))

\* server.js:865-895: the answer of the POST arrives.
\* r.kind: "ok" (with r.id), "notok" (with r.status, r.text), "throw" (with r.message).
makeOverseerrRequestPost(a, st, r) ==
    [pc |-> "done", body |-> st.body, out |-> <<>>,
     result |-> IF r.kind = "ok" THEN [success |-> TRUE, requestId |-> r.id]
                ELSE IF r.kind = "notok"
                THEN [success |-> FALSE, error |-> r.text, status |-> r.status]
                ELSE [success |-> FALSE, error |-> r.message]]

-----------------------------------------------------------------------------
(* The first variant of makeOverseerrRequest (server.js:141-191).          *)

\* What a call that ends with a bare return gives its caller: undefined,
\* a value without a success field.
ReturnedUndefined == <<>>

\* server.js:141-174, up to the first await: no lookup of the seasons, a
\* bare return when the configuration is missing, and the URL used as given.
makeOverseerrRequestFirst(a) ==
    LET body0 == RequestBody(a)
        body  == IF a.type = "series" /\ RequestTypeOf(a) = "season" /\ a.seasonNumber # null
                 THEN WithSeasons(body0, <<a.seasonNumber>>) ELSE body0
    IN  IF ~Truthy(OverseerrUrlOf(a)) \/ ~Truthy(OverseerrApiOf(a))
        THEN [pc |-> "done", body |-> body, result |-> ReturnedUndefined, out |-> <<>>]
        ELSE [pc |-> "post", body |-> body, result |-> NoResult,
              out |-> << [url    |-> OverseerrUrlOf(a) \o "/api/v1/request",
                          apiKey |-> OverseerrApiOf(a),
                          body   |-> body] >>]

\* server.js:176-190: the answer of the POST arrives.
makeOverseerrRequestFirstPost(a, st, r) ==
    [pc |-> "done", body |-> st.body, out |-> <<>>,
     result |-> IF r.kind = "ok" THEN [success |-> TRUE, requestId |-> r.id]
                ELSE IF r.kind = "notok" THEN [success |-> FALSE, error |-> r.text]
                ELSE [success |-> FALSE, error |-> r.message]]

-----------------------------------------------------------------------------
(* The variant of makeOverseerrRequest that tries HTTPS, then HTTP         *)
(* (server.js:1750-1911).                                                  *)

\* new URL(s) succeeds; for the URLs of the model, those with a scheme.
IsUrl(s) == startsWith(s, "http://") \/ startsWith(s, "https://")

\* s.replace('https://', 'http://') for s starting with https://.
HttpUrl(s) == IF startsWith(s, "https://") THEN "http://" \o SubSeq(s, 9, Len(s)) ELSE s

PostTo(a, url, body) == [url |-> url \o "/api/v1/request", apiKey |-> OverseerrApiOf(a), body |-> body]

\* server.js:1750-1865, up to the first await: the validations, the body and
\* the first POST (to the HTTPS URL if the URL is one, else to the HTTP URL).
makeOverseerrRequestHttps(a) ==
    LET body0 == RequestBody(a)
        body  == IF a.type = "series" /\ RequestTypeOf(a) = "season" /\ a.seasonNumber # null
                 THEN WithSeasons(body0, <<a.seasonNumber>>) ELSE body0
        url   == StripTrailingSlash(OverseerrUrlOf(a))
    IN  IF ~Truthy(a.tmdbId) THEN Failure(body0, "TMDB ID is required")
        ELSE IF ~Truthy(a.type) \/ a.type \notin {"movie", "series"}
        THEN Failure(body0, "Invalid media type. Must be \"movie\" or \"series\"")
        ELSE IF ~Truthy(a.mediaName) THEN Failure(body0, "Media name is required")
        ELSE IF a.type = "series" /\ RequestTypeOf(a) = "season" /\ a.seasonNumber \in {null, NaN}
        THEN Failure(body0, "Valid season number is required for TV show season requests")
        ELSE IF parseInt(a.tmdbId) = NaN THEN Failure(body0, "TMDB ID must be a valid number")
        ELSE IF ~Truthy(OverseerrUrlOf(a)) \/ ~Truthy(OverseerrApiOf(a))
        THEN Failure(body, "Missing Overseerr configuration")
        ELSE IF ~IsUrl(OverseerrUrlOf(a)) THEN Failure(body, "Invalid Overseerr URL format")
        ELSE IF Len(OverseerrApiOf(a)) < 8 THEN Failure(body, "Invalid Overseerr API key format")
        ELSE IF startsWith(url, "https://")
        THEN [pc |-> "https", body |-> body, result |-> NoResult, out |-> <<PostTo(a, url, body)>>]
        ELSE [pc |-> "post", body |-> body, result |-> NoResult, out |-> <<PostTo(a, url, body)>>]

\* server.js:1842-1901: the HTTPS POST settles.  An answer that is ok is the
\* result; after any other answer, and after a fault, the request is POSTed
\* again, to the HTTP URL.
makeOverseerrRequestHttpsFirst(a, st, r) ==
    IF r.kind = "ok"
    THEN [pc |-> "done", body |-> st.body, out |-> <<>>,
          result |-> [success |-> TRUE, requestId |-> r.id]]
    ELSE [pc |-> "post", body |-> st.body, result |-> NoResult,
          out |-> <<PostTo(a, HttpUrl(StripTrailingSlash(OverseerrUrlOf(a))), st.body)>>]

-----------------------------------------------------------------------------
(* makeConfiguredOverseerrRequest (part_002:102-225) *)

AllIn(s, chars) == \A i \in 1..Len(s) : \E j \in 1..Len(chars) : CharAt(chars, j) = CharAt(s, i)

\* part_002:70-99: a key of 20 or more hex digits and dashes is used as it
\* is; a key that is the base64 of 20 or more letters, digits, '-' and '_' is
\* decoded; any other key is used as it is.
decodeOverseerrApi(encodedApiKey) ==
    LET decoded == Base64Decode(encodedApiKey)
    IN  IF Len(encodedApiKey) >= 20 /\ AllIn(encodedApiKey, "abcdefABCDEF0123456789-")
        THEN encodedApiKey
        ELSE IF decoded.ok /\ Len(decoded.text) >= 20
                /\ AllIn(decoded.text,
                         "abcdefghijklmnopqrstuvwxyzABCDEFGHIJKLMNOPQRSTUVWXYZ0123456789-_")
        THEN decoded.text
        ELSE encodedApiKey

\* seasonNumber || 1
SeasonOrOne(n) == IF n \in {null, NaN, 0} THEN 1 ELSE n

\* part_002:145-175: the URL gets a scheme and loses one trailing slash, the
\* API key is decoded, and the request is POSTed once, with a 10 s timeout.
SendConfiguredRequest(a, body) ==
    LET given == Field(a.userConfig, "overseerrUrl")
        url   == StripTrailingSlash(IF startsWith(given, "http") THEN given ELSE "https://" \o given)
    IN  [pc |-> "post", body |-> body, result |-> NoResult,
         out |-> << [url    |-> url \o "/api/v1/request",
                     apiKey |-> decodeOverseerrApi(Field(a.userConfig, "overseerrApi")),
                     body   |-> body] >>]

\* part_002:102-143, up to the first await.
makeConfiguredOverseerrRequest(a) ==
    LET body == RequestBody(a)
    IN  IF a.userConfig = nullConfig
        THEN Failure(body, "Cannot read properties of null")
        ELSE IF a.type = "series" /\ RequestTypeOf(a) = "season" /\ a.seasonNumber # null
        THEN SendConfiguredRequest(a, WithSeasons(body, <<a.seasonNumber>>))
        ELSE IF a.type = "series" /\ RequestTypeOf(a) = "series"
        THEN [pc |-> "tmdb", body |-> body, result |-> NoResult, out |-> <<>>]
        ELSE SendConfiguredRequest(a, body)

\* part_002:125-141: the answer of the TMDB season lookup arrives.
makeConfiguredOverseerrRequestTmdb(a, st, r) ==
    IF r.kind = "ok"
    THEN SendConfiguredRequest(a, WithSeasons(st.body, SelectSeq(r.seasons, LAMBDA n : n # NaN /\ n > 0)))
    ELSE SendConfiguredRequest(a, WithSeasons(st.body, <<SeasonOrOne(a.seasonNumber)>>))

\* part_002:179-223: the answer of the POST arrives.
makeConfiguredOverseerrRequestPost(a, st, r) ==
    [pc |-> "done", body |-> st.body, out |-> <<>>,
     result |-> IF r.kind = "ok" THEN [success |-> TRUE, data |-> r.id]
                ELSE IF r.kind = "notok"
                THEN [success |-> FALSE, error |-> r.status, details |-> r.text]
                ELSE [success |-> FALSE, error |-> r.message]]

\* part_002:159-160, 204-223: ten seconds after the POST was sent and not
\* answered, the timer aborts it; fetch rejects with an AbortError, which is
\* reported as a timeout.
makeConfiguredOverseerrRequestAbort(a, st) ==
    [pc |-> "done", body |-> st.body, out |-> <<>>,
     result |-> [success |-> FALSE,
                 error |-> "Request timeout - Overseerr server took too long to respond"]]

-----------------------------------------------------------------------------
(* The clients by name: fn is the function a submission runs. *)

ClientStart(fn, a) ==
    CASE fn = "makeOverseerrRequest" -> makeOverseerrRequest(a)
      [] fn = "makeOverseerrRequestFirst" -> makeOverseerrRequestFirst(a)
      [] fn = "makeOverseerrRequestHttps" -> makeOverseerrRequestHttps(a)
      [] fn = "makeConfiguredOverseerrRequest" -> makeConfiguredOverseerrRequest(a)

ClientTmdb(fn, a, st, r) ==
    CASE fn = "makeOverseerrRequest" -> makeOverseerrRequestTmdb(a, st, r)
      [] fn = "makeConfiguredOverseerrRequest" -> makeConfiguredOverseerrRequestTmdb(a, st, r)

ClientPost(fn, a, st, r) ==
    CASE fn = "makeConfiguredOverseerrRequest" -> makeConfiguredOverseerrRequestPost(a, st, r)
      [] fn = "makeOverseerrRequestFirst" -> makeOverseerrRequestFirstPost(a, st, r)
      [] OTHER -> makeOverseerrRequestPost(a, st, r)

-----------------------------------------------------------------------------
(* Bounds and inputs *)

MaxCalls == 3        \* trigger calls per behaviour
MaxTicks == 2        \* clock advances per behaviour

FIVE_MINUTES == 5 * 60 * 1000
ONE_HOUR == 60 * 60 * 1000

\* The clock at process start, and the steps by which it advances: one
\* second, the cooldown, the cleanup age.
StartTime == 2 * ONE_HOUR
Deltas == {1000, FIVE_MINUTES, ONE_HOUR}

\* Configuration tokens as the configuration page makes them, one with a
\* trailing slash in the URL, and one that is no configuration.
CfgA == generateAddon("tmdbkey1", "http://o", "apikey-1")
CfgASlash == generateAddon("tmdbkey1", "http://o/", "apikey-1")
CfgBad == btoa("not json")

\* The token of another user: a request server whose host name ends in
\* -apikey, with the API key 1.
CfgDash == generateAddon("tmdbkey1", "http://o-apikey", "1")

Query(config, type, tmdbId, title, season, episode, requestType) ==
    [config |-> config, type |-> type, tmdbId |-> tmdbId, title |-> title,
     season |-> season, episode |-> episode, requestType |-> requestType]

\* The query strings of the trigger calls: a movie, a season, the same season
\* as an episode link of the default addon writes it, the whole series, the
\* movie with the other spelling of the server URL, a token that is no
\* configuration, and a call without title.
MovieQuery == Query(CfgA, "movie", "603", "M", "", "", "movie")
SeriesQuery == Query(CfgA, "series", "1399", "S", "", "", "series")
Queries ==
    { MovieQuery,
      Query(CfgA, "series", "1399", "S", "1", "", "season"),
      Query(CfgA, "series", "1399", "S", "1", "1", "auto"),
      SeriesQuery,
      Query(CfgASlash, "movie", "603", "M", "", "", "movie"),
      Query(CfgBad, "movie", "603", "M", "", "", "movie"),
      Query(CfgA, "movie", "603", undefined, "", "", "movie") }

\* The Range headers of the trigger calls.
Ranges == {undefined, "bytes=0-", "bytes=1000-"}

\* What the TMDB season lookup answers.
TmdbAnswers ==
    { [kind |-> "ok", seasons |-> <<0, 1, 2, 3>>], [kind |-> "notok"], [kind |-> "throw"] }

\* What the request server answers to a POST.
PostAnswers ==
    { [kind |-> "ok", id |-> 7],
      [kind |-> "notok", status |-> 500, text |-> "error"],
      [kind |-> "throw", message |-> "timeout"] }

EmptyEnv == <<>>

MaxTriggers == 2     \* trigger calls per behaviour, where every kind of call is made
MaxAnswered == 2     \* trigger calls per behaviour, where their answers are followed
MaxSubmits == 1      \* direct invocations of a client per behaviour

\* The query strings of the configured video route; a parameter that is
\* not given is undefined.
VideoQueries ==
    { Query(CfgA, "movie", "603", "M", undefined, undefined, undefined),
      Query(CfgA, "series", "1399", "S", "2", "1", undefined),
      Query(CfgA, "series", "1399", "S", undefined, undefined, "series"),
      Query(CfgBad, "movie", "603", "M", undefined, undefined, undefined) }

\* The trigger calls whose keys are compared: links as the stream
\* generators write them and as a client may repeat them.
KeyQueries ==
    { Query(c, "movie", "603", "M", "", "", t) : c \in {CfgA, CfgASlash}, t \in {"movie", ""} }
    \cup { Query(c, "series", "1399", "S", sn, e, t) :
              c \in {CfgA, CfgASlash}, sn \in {"", "1", "2", "12"}, e \in {"", "1", "2"},
              t \in {"season", "series", "auto", ""} }
    \cup { Query(CfgDash, "movie", "603", "M", "", "", "movie") }

\* The configurations and environments of the direct invocations.
ConfHttp == decodeConfig(CfgA)
ConfHttps == decodeConfig(generateAddon("tmdbkey1", "https://o/", "apikey-1"))
ConfSlashes == decodeConfig(generateAddon("tmdbkey1", "http://o//", "apikey-1"))
EnvFull == [OVERSEERR_URL |-> "http://o", OVERSEERR_API |-> "apikey-1", TMDB_API_KEY |-> "tmdbkey1"]
EnvNoTmdb == [OVERSEERR_URL |-> "http://o", OVERSEERR_API |-> "apikey-1"]

\* What a direct invocation asks for.
Asked ==
    { [tmdbId |-> "603", type |-> ty, mediaName |-> "T", seasonNumber |-> sn, requestType |-> rt] :
         ty \in {"movie", "series"}, sn \in {null, 2},
         rt \in {undefined, "movie", "season", "series"} }

\* The configuration and the environment a client is invoked with.
Setups ==
    ({"makeOverseerrRequest"} \X {ConfHttp, nullConfig} \X {EnvFull, EnvNoTmdb})
    \cup ({"makeOverseerrRequestHttps"} \X {ConfHttp, ConfHttps} \X {EnvFull})
    \cup ({"makeConfiguredOverseerrRequest"} \X {ConfHttp} \X {EmptyEnv})
    \cup ({"makeOverseerrRequestFirst"} \X {ConfHttps} \X {EnvFull})
    \cup ({"makeOverseerrRequestFirst"} \X {nullConfig} \X {EmptyEnv})
    \cup ({"makeOverseerrRequest"} \X {ConfSlashes} \X {EmptyEnv})

SubmitArgs(asked, setup) ==
    [tmdbId |-> asked.tmdbId, type |-> asked.type, mediaName |-> asked.mediaName,
     seasonNumber |-> asked.seasonNumber, requestType |-> asked.requestType,
     userConfig |-> setup[2], env |-> setup[3]]

\* What the TMDB season lookup answers to the direct invocations.
TmdbLookups ==
    TmdbAnswers \cup { [kind |-> "ok", seasons |-> <<>>], [kind |-> "ok", seasons |-> <<0>>] }

\* The stream listing calls: types, ids and configuration tokens.
MaxListings == 1     \* stream listing calls per behaviour
StreamTypes == {"movie", "series"}
StreamIds ==
    { "tt1", "tt1:1:2", "tt1:x:2", "tt1:1:", "tt1:2x:3", "tt1:2", "tt1:1:2:3", "x1:1:2", ":1:2",
      "tt1:0:5", "tt1:-1:2", "tt1::", "603", "1399", "0", "603:1:2", "603x", "abc", "" }
StreamConfigs == {CfgA, CfgBad}

\* What TMDB answers to the lookup by IMDb id and to the lookup of the title.
FindAnswers ==
    { [kind |-> "ok", results |-> <<[id |-> 603, title |-> "M"]>>],
      [kind |-> "ok", results |-> <<>>], [kind |-> "notok"], [kind |-> "throw"] }
DetailsAnswers ==
    { [kind |-> "ok", title |-> "M"], [kind |-> "ok", title |-> undefined],
      [kind |-> "notok"], [kind |-> "throw"] }

\* The configurations given to the encoders: every field out of a few
\* values, the empty one and a URL without scheme among them.
CodecPairs == {"server.js", "part_002"}
CodecConfigs ==
    [tmdbKey : {"tmdbkey1", "k"}, overseerrUrl : {"http://o", "https://o/", "o"},
     overseerrApi : {"apikey-1", "a", ""}]

\* The tokens given to the decoders as they are: not base64, not JSON, not
\* an object with members, an object without overseerrApi, an object with
\* an empty overseerrUrl, and the token of tmdbKey kk, overseerrUrl
\* http://o, overseerrApi a without its two padding characters.
UnpaddedToken == "eyJ0bWRiS2V5Ijoia2siLCJvdmVyc2VlcnJVcmwiOiJodHRwOi8vbyIsIm92ZXJzZWVyckFwaSI6ImEifQ"
RawTokens ==
    { "!!!", "", CfgBad, btoa("{}"),
      btoa(JsonStringify(<< <<"tmdbKey", "k">>, <<"overseerrUrl", "http://o">> >>)),
      generateAddon("k", "", "a"),
      UnpaddedToken }

\* The ids of the calls of the route of part_000 and what TMDB answers.
InlineIds == {"603", "tt1", ""}
InlineFindAnswers ==
    { [kind |-> "ok", results |-> <<[id |-> 603, title |-> "M"]>>],
      [kind |-> "ok", results |-> <<>>], [kind |-> "notok", results |-> <<>>], [kind |-> "throw"] }

\* The trigger calls that lack what a submission needs: a token that is no
\* configuration, an empty token, and calls without type, TMDB id or title.
InvalidQueries ==
    { Query(CfgBad, "movie", "603", "M", "", "", "movie"),
      Query("", "movie", "603", "M", "", "", "movie"),
      Query(CfgA, undefined, "603", "M", "", "", "movie"),
      Query(CfgA, "movie", undefined, "M", "", "", "movie"),
      Query(CfgA, "movie", "603", undefined, "", "", "movie") }

\* decodeConfig on the tokens of the model, computed once.
ConfigTokens ==
    {q.config : q \in Queries \cup VideoQueries \cup KeyQueries \cup InvalidQueries} \cup StreamConfigs
DecodedConfig == [t \in ConfigTokens |-> decodeConfig(t)]
DecodedUnpadded == [t \in ConfigTokens |-> decodeConfigUnpadded(t)]

-----------------------------------------------------------------------------
(* GET /proxy-wait (server.js:1144-1259) *)

\* server.js:1151
isInitialRequest(range) == ~Truthy(range) \/ startsWith(range, "bytes=0-")

\* A key of the destination and the title alone.
requestKeyByTitle(userConfig, q) ==
    "req-" \o Str(Field(userConfig, "overseerrUrl")) \o "-" \o Str(Field(userConfig, "overseerrApi"))
    \o "-" \o Str(q.type) \o "-" \o Str(q.tmdbId)

\* server.js:1157
requestKey(userConfig, q) ==
    "req-" \o Str(Field(userConfig, "overseerrUrl")) \o "-" \o Str(Field(userConfig, "overseerrApi"))
    \o "-" \o Str(q.type) \o "-" \o Str(q.tmdbId) \o "-" \o OrElse(q.season, "")
    \o "-" \o OrElse(q.episode, "") \o "-" \o OrElse(q.requestType, "auto")

\* A lookup that never finds the key.
MapGetMiss(map, key) == 0

\* pendingRequests.get(key): undefined (here 0, just as falsy) for a missing key.
MapGet(map, key) == IF key \in DOMAIN map THEN map[key] ELSE 0

\* A write that has not reached the table when the next handler looks.
MapSetDeferred(map, key, value) == map

\* pendingRequests.set(key, value)
MapSet(map, key, value) ==
    [k \in DOMAIN map \cup {key} |-> IF k = key THEN value ELSE map[k]]

\* A cooldown of five minutes compared with a difference in milliseconds
\* as if it were in seconds.
ShouldRequestSeconds(lastRequest, t) == lastRequest = 0 \/ (t - lastRequest) > 5 * 60

\* server.js:1164: no request stored, or the stored one is older than the cooldown.
ShouldRequest(lastRequest, t) == lastRequest = 0 \/ (t - lastRequest) > FIVE_MINUTES

\* server.js:1173
seasonNumOf(q) == IF Truthy(q.season) THEN parseInt(q.season) ELSE null

\* server.js:1176-1189
finalRequestType(q) ==
    IF q.type = "movie" THEN "movie"
    ELSE IF q.type = "series"
    THEN IF q.requestType = "series" THEN "series"
         ELSE IF q.requestType = "season" /\ seasonNumOf(q) # null THEN "season"
         ELSE IF seasonNumOf(q) # null THEN "season"
         ELSE "series"
    ELSE undefined

\* The arguments of makeOverseerrRequest at server.js:1192.
ProxyArgs(userConfig, q) ==
    [tmdbId |-> q.tmdbId, type |-> q.type, mediaName |-> q.title,
     seasonNumber |-> seasonNumOf(q), requestType |-> finalRequestType(q),
     userConfig |-> userConfig, env |-> EmptyEnv]

\* A background submission: the invocation st of client fn with arguments a,
\* started for table key `key` at time `at`; tmdb is the answer its season
\* lookup got, once it got one.
NoLookup == [kind |-> "none"]

Task(fn, key, at, a, st) ==
    [fn |-> fn, key |-> key, at |-> at, args |-> a,
     pc |-> st.pc, body |-> st.body, result |-> st.result, tmdb |-> NoLookup]

\* The POSTs st.out, marked with the task that issued them.
Issued(i, st) == [j \in 1..Len(st.out) |->
    [task |-> i, url |-> st.out[j].url, apiKey |-> st.out[j].apiKey, body |-> st.out[j].body]]

\* A trigger call: what it did with the table (outcome) and what it has been
\* answered so far (response).
Handler(route, q, key, range, outcome, response) ==
    [route |-> route, query |-> q, key |-> key, range |-> range, at |-> now, outcome |-> outcome,
     task |-> IF outcome = "dispatched" THEN Len(tasks) + 1 ELSE 0, response |-> response]

\* A handler that writes the time of every call it looks up into the table,
\* of the suppressed ones too.
ProxyWaitRefreshing(q, range) ==
    /\ Len(handlers) < MaxCalls
    /\ LET userConfig == DecodedConfig[q.config]
           key == requestKey(userConfig, q)
           st  == makeOverseerrRequest(ProxyArgs(userConfig, q))
       IN  IF isInitialRequest(range) /\ Truthy(q.config) /\ Truthy(q.type)
              /\ Truthy(q.tmdbId) /\ Truthy(q.title)
           THEN IF userConfig # nullConfig
                THEN IF ShouldRequest(MapGet(pendingRequests, key), now)
                     THEN /\ pendingRequests' = MapSet(pendingRequests, key, now)
                          /\ tasks' = Append(tasks,
                                Task("makeOverseerrRequest", key, now, ProxyArgs(userConfig, q), st))
                          /\ posts' = posts \o Issued(Len(tasks) + 1, st)
                          /\ handlers' = Append(handlers, Handler("proxy-wait", q, key, range, "dispatched", "none"))
                     ELSE /\ handlers' = Append(handlers, Handler("proxy-wait", q, key, range, "skipped", "none"))
                          /\ pendingRequests' = MapSet(pendingRequests, key, now)
                          /\ UNCHANGED <<tasks, posts>>
                ELSE /\ handlers' = Append(handlers, Handler("proxy-wait", q, "", range, "invalid", "none"))
                     /\ UNCHANGED <<pendingRequests, tasks, posts>>
           ELSE /\ handlers' = Append(handlers, Handler("proxy-wait", q, "", range,
                                    IF isInitialRequest(range) THEN "invalid" ELSE "range", "none"))
                /\ UNCHANGED <<pendingRequests, tasks, posts>>
    /\ UNCHANGED <<now, ticks, requestResults, keyIn, keyOut, streamCalls, codec>>

\* A handler that answers a token that is no configuration with status 400,
\* as the configured video route does.
ProxyWaitRejecting(q, range) ==
    /\ Len(handlers) < MaxCalls
    /\ LET userConfig == DecodedConfig[q.config]
           key == requestKey(userConfig, q)
           st  == makeOverseerrRequest(ProxyArgs(userConfig, q))
       IN  IF isInitialRequest(range) /\ Truthy(q.config) /\ Truthy(q.type)
              /\ Truthy(q.tmdbId) /\ Truthy(q.title)
           THEN IF userConfig # nullConfig
                THEN IF ShouldRequest(MapGet(pendingRequests, key), now)
                     THEN /\ pendingRequests' = MapSet(pendingRequests, key, now)
                          /\ tasks' = Append(tasks,
                                Task("makeOverseerrRequest", key, now, ProxyArgs(userConfig, q), st))
                          /\ posts' = posts \o Issued(Len(tasks) + 1, st)
                          /\ handlers' = Append(handlers, Handler("proxy-wait", q, key, range, "dispatched", "none"))
                     ELSE /\ handlers' = Append(handlers, Handler("proxy-wait", q, key, range, "skipped", "none"))
                          /\ UNCHANGED <<pendingRequests, tasks, posts>>
                ELSE /\ handlers' = Append(handlers, Handler("proxy-wait", q, "", range, "invalid", "400"))
                     /\ UNCHANGED <<pendingRequests, tasks, posts>>
           ELSE /\ handlers' = Append(handlers, Handler("proxy-wait", q, "", range,
                                    IF isInitialRequest(range) THEN "invalid" ELSE "range", "none"))
                /\ UNCHANGED <<pendingRequests, tasks, posts>>
    /\ UNCHANGED <<now, ticks, requestResults, keyIn, keyOut, streamCalls, codec>>

\* server.js:1148-1210: the sequential part of the handler, up to the await
\* of the CDN fetch; the background submission runs up to its first await.
ProxyWait(q, range) ==
    /\ Len(handlers) < MaxCalls
    /\ LET userConfig == DecodedConfig[q.config]
           key == requestKey(userConfig, q)
           st  == makeOverseerrRequest(ProxyArgs(userConfig, q))
       IN  IF isInitialRequest(range) /\ Truthy(q.config) /\ Truthy(q.type)
              /\ Truthy(q.tmdbId) /\ Truthy(q.title)
           THEN IF userConfig # nullConfig
                THEN IF ShouldRequest(MapGet(pendingRequests, key), now)
                     THEN /\ pendingRequests' = MapSet(pendingRequests, key, now)
                          /\ tasks' = Append(tasks,
                                Task("makeOverseerrRequest", key, now, ProxyArgs(userConfig, q), st))
                          /\ posts' = posts \o Issued(Len(tasks) + 1, st)
                          /\ handlers' = Append(handlers, Handler("proxy-wait", q, key, range, "dispatched", "none"))
                     ELSE /\ handlers' = Append(handlers, Handler("proxy-wait", q, key, range, "skipped", "none"))
                          /\ UNCHANGED <<pendingRequests, tasks, posts>>
                ELSE /\ handlers' = Append(handlers, Handler("proxy-wait", q, "", range, "invalid", "none"))
                     /\ UNCHANGED <<pendingRequests, tasks, posts>>
           ELSE /\ handlers' = Append(handlers, Handler("proxy-wait", q, "", range,
                                    IF isInitialRequest(range) THEN "invalid" ELSE "range", "none"))
                /\ UNCHANGED <<pendingRequests, tasks, posts>>
    /\ UNCHANGED <<now, ticks, requestResults, keyIn, keyOut, streamCalls, codec>>

\* A handler that awaits its background submission before it answers.
ProxyRespondAfterSubmission(h, cdn) ==
    /\ handlers[h].route = "proxy-wait"
    /\ handlers[h].response = "none"
    /\ handlers[h].task # 0 => tasks[handlers[h].task].pc = "done"
    /\ handlers' = [handlers EXCEPT ![h].response = IF cdn = "ok" THEN "stream" ELSE "redirect"]
    /\ UNCHANGED <<now, ticks, pendingRequests, requestResults, tasks, posts, keyIn, keyOut, streamCalls, codec>>

\* server.js:1212-1258: the CDN fetch settles and the handler answers: the
\* proxied stream, or a redirect to the video when the fetch failed.
ProxyRespond(h, cdn) ==
    /\ handlers[h].route = "proxy-wait"
    /\ handlers[h].response = "none"
    /\ handlers' = [handlers EXCEPT ![h].response = IF cdn = "ok" THEN "stream" ELSE "redirect"]
    /\ UNCHANGED <<now, ticks, pendingRequests, requestResults, tasks, posts, keyIn, keyOut, streamCalls, codec>>

\* A cleanup that deletes the entries older than one second.
CleanupAfterOneSecond ==
    /\ pendingRequests' = [k \in {x \in DOMAIN pendingRequests :
                                    ~(pendingRequests[x] < now - 1000)} |-> pendingRequests[k]]
    /\ UNCHANGED <<now, ticks, requestResults, tasks, posts, handlers, keyIn, keyOut, streamCalls, codec>>

\* server.js:1262-1281: GET /cleanup deletes the entries older than one hour.
Cleanup ==
    /\ pendingRequests' = [k \in {x \in DOMAIN pendingRequests :
                                    ~(pendingRequests[x] < now - ONE_HOUR)} |-> pendingRequests[k]]
    /\ UNCHANGED <<now, ticks, requestResults, tasks, posts, handlers, keyIn, keyOut, streamCalls, codec>>

\* Time passes.
Tick(d) ==
    /\ ticks < MaxTicks
    /\ now' = now + d
    /\ ticks' = ticks + 1
    /\ UNCHANGED <<pendingRequests, requestResults, tasks, posts, handlers, keyIn, keyOut, streamCalls, codec>>

\* A submission that, when it returns a failure, deletes the entry of its
\* key so that the next trigger tries again.
AdvanceAndForget(i, st, lookup) ==
    /\ tasks' = [tasks EXCEPT ![i].pc = st.pc, ![i].body = st.body, ![i].result = st.result,
                              ![i].tmdb = lookup]
    /\ posts' = posts \o Issued(i, st)
    /\ pendingRequests' =
         IF st.pc = "done" /\ st.result.success = FALSE
         THEN [k \in DOMAIN pendingRequests \ {tasks[i].key} |-> pendingRequests[k]]
         ELSE pendingRequests
    /\ UNCHANGED <<now, ticks, requestResults, handlers, keyIn, keyOut, streamCalls, codec>>

\* A submission of the configured video route that, when it returns a
\* failure, deletes the result of its key so that the next call tries again.
AdvanceAndRetry(i, st, lookup) ==
    /\ tasks' = [tasks EXCEPT ![i].pc = st.pc, ![i].body = st.body, ![i].result = st.result,
                              ![i].tmdb = lookup]
    /\ posts' = posts \o Issued(i, st)
    /\ requestResults' =
         IF tasks[i].fn = "makeConfiguredOverseerrRequest" /\ st.pc = "done"
         THEN IF st.result.success = TRUE
              THEN MapSet(requestResults, tasks[i].key, st.result)
              ELSE [k \in DOMAIN requestResults \ {tasks[i].key} |-> requestResults[k]]
         ELSE requestResults
    /\ UNCHANGED <<now, ticks, pendingRequests, handlers, keyIn, keyOut, streamCalls, codec>>

\* Background submission i moves on to st.  When a submission started by
\* the configured video route returns, its .then stores the result under
\* the request key (part_002:345-351).
Advance(i, st, lookup) ==
    /\ tasks' = [tasks EXCEPT ![i].pc = st.pc, ![i].body = st.body, ![i].result = st.result,
                              ![i].tmdb = lookup]
    /\ posts' = posts \o Issued(i, st)
    /\ requestResults' =
         IF tasks[i].fn = "makeConfiguredOverseerrRequest" /\ st.pc = "done"
         THEN MapSet(requestResults, tasks[i].key, st.result)
         ELSE requestResults
    /\ UNCHANGED <<now, ticks, pendingRequests, handlers, keyIn, keyOut, streamCalls, codec>>

\* The TMDB season lookup of background submission i settles.
TmdbSettles(i, r) ==
    /\ tasks[i].pc = "tmdb"
    /\ Advance(i, ClientTmdb(tasks[i].fn, tasks[i].args, tasks[i], r), r)

\* The POST of background submission i settles.
PostSettles(i, r) ==
    /\ tasks[i].pc = "post"
    /\ Advance(i, ClientPost(tasks[i].fn, tasks[i].args, tasks[i], r), tasks[i].tmdb)

\* The first, HTTPS, POST of background submission i settles (server.js:1842-1878).
HttpsSettles(i, r) ==
    /\ tasks[i].pc = "https"
    /\ Advance(i, makeOverseerrRequestHttpsFirst(tasks[i].args, tasks[i], r), tasks[i].tmdb)

\* The timer of the POST of background submission i fires (part_002:160).
\* Only makeConfiguredOverseerrRequest sets one, and only for its POST.
PostTimeout(i) ==
    /\ tasks[i].fn = "makeConfiguredOverseerrRequest"
    /\ tasks[i].pc = "post"
    /\ Advance(i, makeConfiguredOverseerrRequestAbort(tasks[i].args, tasks[i]), tasks[i].tmdb)

-----------------------------------------------------------------------------
(* GET /configured/:config/video/:type/:tmdbId (part_002:313-365) *)

\* part_002:326-333
videoRequestKey(q) ==
    IF q.type = "movie" THEN "movie-" \o Str(q.tmdbId) \o "-" \o Str(q.config)
    ELSE IF q.requestType = "series"
    THEN "series-" \o Str(q.tmdbId) \o "-series-" \o Str(q.config)
    ELSE "series-" \o Str(q.tmdbId) \o "-season-" \o Str(q.season) \o "-" \o Str(q.config)

\* The arguments of makeConfiguredOverseerrRequest at part_002:340-344.
VideoArgs(userConfig, q) ==
    [tmdbId |-> q.tmdbId, type |-> q.type, mediaName |-> OrElse(q.title, "Unknown"),
     seasonNumber |-> IF Truthy(q.season) THEN parseInt(q.season) ELSE null,
     episodeNumber |-> IF Truthy(q.episode) THEN parseInt(q.episode) ELSE null,
     requestType |-> OrElse(q.requestType, IF q.type = "movie" THEN "movie" ELSE "season"),
     userConfig |-> userConfig, env |-> EmptyEnv]

\* serveVideo (part_002:19-67): the local file, whole or the range asked
\* for, or a redirect to the hosted video.
serveVideo(range, localFile) ==
    IF localFile THEN IF Truthy(range) THEN "partial" ELSE "whole" ELSE "redirect"

\* part_002:313-365, the whole handler: it has no await before the response.
ConfiguredVideo(q, range, localFile) ==
    /\ Len(handlers) < MaxCalls
    /\ LET userConfig == DecodedUnpadded[q.config]
           key == videoRequestKey(q)
           st  == makeConfiguredOverseerrRequest(VideoArgs(userConfig, q))
       IN  IF userConfig = nullConfig
           THEN /\ handlers' = Append(handlers, Handler("video", q, "", range, "invalid", "400"))
                /\ UNCHANGED <<requestResults, tasks, posts>>
           ELSE IF key \notin DOMAIN requestResults
           THEN /\ requestResults' = MapSet(requestResults, key, [processing |-> TRUE])
                /\ tasks' = Append(tasks, Task("makeConfiguredOverseerrRequest", key, now,
                                              VideoArgs(userConfig, q), st))
                /\ posts' = posts \o Issued(Len(tasks) + 1, st)
                /\ handlers' = Append(handlers, Handler("video", q, key, range, "dispatched",
                                                        serveVideo(range, localFile)))
           ELSE /\ handlers' = Append(handlers, Handler("video", q, key, range, "skipped",
                                                        serveVideo(range, localFile)))
                /\ UNCHANGED <<requestResults, tasks, posts>>
    /\ UNCHANGED <<now, ticks, pendingRequests, keyIn, keyOut, streamCalls, codec>>

-----------------------------------------------------------------------------
(* GET /configured/:config/stream/:type/:id.json (server.js:965-1062) and  *)
(* createStreamObject (server.js:899-942)                                  *)

\* JavaScript truthiness of a number-or-null value.
TruthyNum(n) == n \notin {null, NaN, 0}

\* String(n) for an integer, NaN or null.
RECURSIVE NatStr(_)
NatStr(n) == IF n < 10 THEN CharAt(Digits, n + 1) ELSE NatStr(n \div 10) \o CharAt(Digits, (n % 10) + 1)

NumStr(n) ==
    IF n = NaN THEN "NaN" ELSE IF n = null THEN "null"
    ELSE IF n < 0 THEN "-" \o NatStr(0 - n) ELSE NatStr(n)

\* season || ''
NumOrEmpty(n) == IF TruthyNum(n) THEN NumStr(n) ELSE ""

\* server.js:899-942: the title of the stream and the query string of its
\* /proxy-wait URL.
createStreamObject(title, type, tmdbId, season, episode, config, requestType) ==
    [name  |-> "Overseerr",
     title |-> IF type = "movie" THEN "Request \"" \o title \o "\""
               ELSE IF TruthyNum(season) /\ TruthyNum(episode)
               THEN IF requestType = "season"
                    THEN "Request Season " \o NumStr(season) \o " of \"" \o title \o "\""
                    ELSE IF requestType = "series"
                    THEN "Request Entire Series \"" \o title \o "\""
                    ELSE "Request S" \o NumStr(season) \o "E" \o NumStr(episode)
                            \o " of \"" \o title \o "\""
               ELSE IF TruthyNum(season)
               THEN "Request Season " \o NumStr(season) \o " of \"" \o title \o "\""
               ELSE "Request \"" \o title \o "\"",
     url   |-> [config |-> config, type |-> type, tmdbId |-> NumStr(tmdbId), title |-> title,
                season |-> NumOrEmpty(season), episode |-> NumOrEmpty(episode),
                requestType |-> requestType],
     bingeGroup |-> "overseerr-" \o type \o "-" \o NumStr(tmdbId) \o "-" \o requestType]

\* server.js:1027-1056: no stream without a TMDB id; one stream for a
\* movie, two for an episode of a series, one for a season or a series.
BuildStreams(type, title, tmdbId, season, episode, config) ==
    IF ~TruthyNum(tmdbId) THEN <<>>
    ELSE IF type = "movie"
    THEN <<createStreamObject(title, "movie", tmdbId, null, null, config, "movie")>>
    ELSE IF type = "series"
    THEN IF season # null /\ episode # null
         THEN <<createStreamObject(title, "series", tmdbId, season, null, config, "season"),
                createStreamObject(title, "series", tmdbId, null, null, config, "series")>>
         ELSE IF season # null
         THEN <<createStreamObject(title, "series", tmdbId, season, null, config, "season")>>
         ELSE <<createStreamObject(title, "series", tmdbId, null, null, config, "series")>>
    ELSE <<>>

\* What a stream listing call has not answered yet.
NoResponse == <<>>

\* A stream listing call: where it is (pc "find": awaiting the lookup by
\* IMDb id, "details": awaiting the lookup of the title, "done"), what it
\* parsed, the TMDB id and title it has, and its response; lookup is the
\* answer its TMDB lookup got, once it got one.
StreamCall(config, type, id, pc, parsedId, tmdbId, title, response) ==
    [config |-> config, type |-> type, id |-> id, pc |-> pc, parsedId |-> parsedId,
     tmdbId |-> tmdbId, title |-> title, response |-> response, lookup |-> NoLookup]

\* res.json({ streams: [...] })
StreamsResponse(streams) == [streams |-> streams]

\* server.js:965-1019, up to the first await.
StreamStart(config, type, id) ==
    LET userConfig == DecodedConfig[config]
        parsedId   == parseStremioId(id, type)
        title      == "ID: " \o id
    IN  IF userConfig = nullConfig
        THEN StreamCall(config, type, id, "done", nullParsedId, null, title, StreamsResponse(<<>>))
        ELSE IF parsedId = nullParsedId
        THEN StreamCall(config, type, id, "done", parsedId, null, title, StreamsResponse(<<>>))
        ELSE IF Truthy(Field(parsedId, "imdbId"))
        THEN StreamCall(config, type, id, "find", parsedId, null, title, NoResponse)
        ELSE IF "tmdbId" \in DOMAIN parsedId /\ TruthyNum(parsedId.tmdbId)
        THEN StreamCall(config, type, id, "details", parsedId, parsedId.tmdbId, title, NoResponse)
        ELSE StreamCall(config, type, id, "done", parsedId, null, title, StreamsResponse(<<>>))

\* The call c answers with the streams of what it resolved.
StreamAnswer(c, tmdbId, title) ==
    StreamCall(c.config, c.type, c.id, "done", c.parsedId, tmdbId, title,
               StreamsResponse(BuildStreams(c.type, title, tmdbId, c.parsedId.season,
                                            c.parsedId.episode, c.config)))

\* The call c answers with no stream.
StreamEmpty(c) ==
    StreamCall(c.config, c.type, c.id, "done", c.parsedId, c.tmdbId, c.title, StreamsResponse(<<>>))

\* A handler that, when TMDB has no match, takes the digits of the IMDb id
\* for the TMDB id.
StreamFoundGuessing(c, r) ==
    IF r.kind = "ok" /\ Len(r.results) > 0
    THEN StreamAnswer(c, r.results[1].id, r.results[1].title)
    ELSE IF r.kind = "ok"
    THEN StreamAnswer(c, parseInt(SubSeq(c.parsedId.imdbId, 3, Len(c.parsedId.imdbId))), c.title)
    ELSE StreamEmpty(c)

\* server.js:996-1011: the answer r of the lookup by IMDb id arrives.
\* r.kind: "ok" (with r.results, the movie_results or tv_results of the
\* type asked for), "notok", "throw" (caught at server.js:1058-1061).
StreamFound(c, r) ==
    IF r.kind = "ok" /\ Len(r.results) > 0
    THEN StreamAnswer(c, r.results[1].id, r.results[1].title)
    ELSE StreamEmpty(c)

\* server.js:1021-1024: the answer r of the lookup of the title arrives.
\* r.kind: "ok" (with r.title, undefined when there is none), "notok",
\* "throw" (caught at server.js:1058-1061).
StreamDetailed(c, r) ==
    IF r.kind = "ok" THEN StreamAnswer(c, c.tmdbId, OrElse(r.title, c.title))
    ELSE IF r.kind = "notok" THEN StreamAnswer(c, c.tmdbId, c.title)
    ELSE StreamEmpty(c)

\* A stream listing call arrives and runs to its first await.
StreamRequest(config, type, id) ==
    /\ streamCalls' = Append(streamCalls, StreamStart(config, type, id))
    /\ UNCHANGED <<now, ticks, pendingRequests, requestResults, tasks, posts, handlers, keyIn, keyOut, codec>>

\* The lookup by IMDb id of stream listing call k settles.
StreamFindSettles(k, r) ==
    /\ streamCalls[k].pc = "find"
    /\ streamCalls' = [streamCalls EXCEPT ![k] = [StreamFound(streamCalls[k], r) EXCEPT !.lookup = r]]
    /\ UNCHANGED <<now, ticks, pendingRequests, requestResults, tasks, posts, handlers, keyIn, keyOut, codec>>

\* The lookup of the title of stream listing call k settles.
StreamDetailsSettles(k, r) ==
    /\ streamCalls[k].pc = "details"
    /\ streamCalls' = [streamCalls EXCEPT ![k] = [StreamDetailed(streamCalls[k], r) EXCEPT !.lookup = r]]
    /\ UNCHANGED <<now, ticks, pendingRequests, requestResults, tasks, posts, handlers, keyIn, keyOut, codec>>

-----------------------------------------------------------------------------
(* The configuration on its way: the configuration page or encodeConfig    *)
(* makes the token, decodeConfig reads it.                                 *)

\* No configuration is under way.
NoCodec == [stage |-> "none"]

\* A configuration `config` that `pair` ("server.js": generateAddon and
\* decodeConfig of server.js; "part_002": encodeConfig and decodeConfig of
\* part_002) is to encode, or a token it is to decode.
Codec(stage, pair, config, token, decoded) ==
    [stage |-> stage, pair |-> pair, config |-> config, token |-> token, decoded |-> decoded]

\* server.js:1598-1625: the page refuses a configuration with an empty
\* field or with a URL without http:// or https://, and encodes any other.
\* part_002:275-285: encodeConfig encodes what it is given.
Encode ==
    /\ codec.stage = "config"
    /\ codec' =
         IF codec.pair = "part_002"
         THEN Codec("token", codec.pair, codec.config, encodeConfig(codec.config), nullConfig)
         ELSE IF \/ ~Truthy(codec.config.tmdbKey) \/ ~Truthy(codec.config.overseerrUrl)
                 \/ ~Truthy(codec.config.overseerrApi)
                 \/ ~IsUrl(codec.config.overseerrUrl)
         THEN Codec("alert", codec.pair, codec.config, "", nullConfig)
         ELSE Codec("token", codec.pair, codec.config,
                    generateAddon(codec.config.tmdbKey, codec.config.overseerrUrl,
                                  codec.config.overseerrApi), nullConfig)
    /\ UNCHANGED <<now, ticks, pendingRequests, requestResults, tasks, posts, handlers,
                   keyIn, keyOut, streamCalls>>

\* decodeConfig (server.js:770-790, part_002:259-273) reads the token.
Decode ==
    /\ codec.stage = "token"
    /\ codec' = Codec("decoded", codec.pair, codec.config, codec.token,
                      IF codec.pair = "part_002" THEN decodeConfigUnpadded(codec.token)
                      ELSE decodeConfig(codec.token))
    /\ UNCHANGED <<now, ticks, pendingRequests, requestResults, tasks, posts, handlers,
                   keyIn, keyOut, streamCalls>>

-----------------------------------------------------------------------------
(* GET /configured/:config/stream/:type/:id.json of part_000:162-211, which *)
(* decodes the token itself.                                               *)

\* res.status(500).json({ error: 'Internal server error' })
InternalError == [status |-> 500, error |-> "Internal server error"]

\* A call of this route: the configuration it decoded, where it is (pc
\* "find": awaiting the lookup by IMDb id, "done") and its response.
InlineCall(config, type, id, pc, userConfig, response) ==
    [config |-> config, type |-> type, id |-> id, pc |-> pc, userConfig |-> userConfig,
     response |-> response, lookup |-> NoLookup]

\* part_000:195-206: one stream, whose URL is made of the configured URL.
InlineStreams(c, tmdbId) ==
    IF ~Truthy(tmdbId) THEN StreamsResponse(<<>>)
    ELSE StreamsResponse(<< [title |-> "Request on Overseerr",
                             url |-> Str(c.userConfig.overseerrUrl) \o "/"
                                     \o (IF c.type = "movie" THEN "movie" ELSE "tv")
                                     \o "/" \o tmdbId] >>)

\* part_000:164-193, up to the first await.
InlineStreamStart(config, type, id) ==
    LET userConfig == decodeInline(config)
        call       == InlineCall(config, type, id, "done", userConfig, NoResponse)
    IN  IF ~userConfig.ok
        THEN InlineCall(config, type, id, "done", userConfig, InternalError)
        ELSE IF startsWith(id, "tt")
        THEN InlineCall(config, type, id, "find", userConfig, NoResponse)
        ELSE [call EXCEPT !.response = InlineStreams(call, id)]

\* part_000:181-211: the answer r of the lookup by IMDb id arrives.  The
\* body is read as JSON whatever the status; r.kind: "ok" and "notok" (with
\* r.results, none in the JSON of an error), "throw" (the fetch failed or
\* the body is not JSON).
InlineStreamFound(c, r) ==
    IF r.kind = "throw" THEN [c EXCEPT !.pc = "done", !.response = InternalError, !.lookup = r]
    ELSE [c EXCEPT !.pc = "done", !.lookup = r,
                   !.response = InlineStreams(c, IF Len(r.results) > 0
                                                 THEN NumStr(r.results[1].id) ELSE undefined)]

\* A call of the route arrives with the token under way and runs to its
\* first await.
InlineStreamRequest(type, id) ==
    /\ codec.stage \in {"token", "decoded"}
    /\ streamCalls' = Append(streamCalls, InlineStreamStart(codec.token, type, id))
    /\ UNCHANGED <<now, ticks, pendingRequests, requestResults, tasks, posts, handlers,
                   keyIn, keyOut, codec>>

\* The lookup by IMDb id of call k settles.
InlineFindSettles(k, r) ==
    /\ streamCalls[k].pc = "find"
    /\ streamCalls' = [streamCalls EXCEPT ![k] = InlineStreamFound(streamCalls[k], r)]
    /\ UNCHANGED <<now, ticks, pendingRequests, requestResults, tasks, posts, handlers,
                   keyIn, keyOut, codec>>

-----------------------------------------------------------------------------
(* GET /track-playback (server.js:2830-2877), in the variant of the server *)
(* whose pendingRequests is a Set of request keys (server.js:2557)         *)

\* server.js:2614-2640, up to the first await: the body, the configuration
\* check, the URL normalisation and the one POST; no lookup of the seasons.
makeOverseerrRequestTracked(a) ==
    LET body0 == RequestBody(a)
        body  == IF a.type = "series" /\ RequestTypeOf(a) = "season" /\ a.seasonNumber # null
                 THEN WithSeasons(body0, <<a.seasonNumber>>) ELSE body0
    IN  SendRequest(a, body)

\* server.js:2839
trackRequestKey(q) ==
    Str(q.config) \o "-" \o Str(q.type) \o "-" \o Str(q.tmdbId) \o "-" \o Str(q.season)
    \o "-" \o Str(q.episode)

\* The arguments of makeOverseerrRequest at server.js:2846-2852.
TrackArgs(userConfig, q) ==
    [tmdbId |-> q.tmdbId, type |-> q.type, mediaName |-> q.title,
     seasonNumber |-> seasonNumOf(q),
     requestType |-> IF q.type = "movie" THEN "movie"
                     ELSE IF seasonNumOf(q) # null THEN "season" ELSE "series",
     userConfig |-> userConfig, env |-> EmptyEnv]

\* A submission that setTimeout has scheduled and that has not started.
Scheduled == [pc |-> "timer", body |-> <<>>, result |-> NoResult, out |-> <<>>]

\* The query strings of the playback calls: a movie, an episode, another
\* episode of the same season, a token that is no configuration, and a call
\* without title.
TrackQueries ==
    { Query(CfgA, "movie", "603", "M", undefined, undefined, undefined),
      Query(CfgA, "series", "1399", "S", "1", "1", undefined),
      Query(CfgA, "series", "1399", "S", "1", "2", undefined),
      Query(CfgBad, "movie", "603", "M", undefined, undefined, undefined),
      Query(CfgA, "movie", "603", undefined, undefined, undefined, undefined) }

\* server.js:2830-2876: the handler; it adds the key and schedules the
\* submission, or finds the key pending, and answers at once.
TrackPlayback(q) ==
    /\ Len(handlers) < MaxCalls
    /\ LET userConfig == DecodedConfig[q.config]
           key == trackRequestKey(q)
       IN  IF userConfig # nullConfig /\ Truthy(q.title)
           THEN IF key \notin pendingRequests
                THEN /\ pendingRequests' = pendingRequests \cup {key}
                     /\ tasks' = Append(tasks, Task("makeOverseerrRequestTracked", key, now,
                                                   TrackArgs(userConfig, q), Scheduled))
                     /\ handlers' = Append(handlers,
                            Handler("track-playback", q, key, undefined, "dispatched", "tracked"))
                ELSE /\ handlers' = Append(handlers,
                            Handler("track-playback", q, key, undefined, "skipped", "tracked"))
                     /\ UNCHANGED <<pendingRequests, tasks>>
           ELSE /\ handlers' = Append(handlers,
                       Handler("track-playback", q, "", undefined, "invalid", "tracked"))
                /\ UNCHANGED <<pendingRequests, tasks>>
    /\ UNCHANGED <<now, ticks, requestResults, posts, keyIn, keyOut, streamCalls, codec>>

\* A callback that deletes the key after a successful submission only.
TrackCompletedForgetful(i, st) ==
    /\ tasks' = [tasks EXCEPT ![i].pc = st.pc, ![i].body = st.body, ![i].result = st.result]
    /\ posts' = posts \o Issued(i, st)
    /\ pendingRequests' = IF st.pc = "done" /\ st.result.success = TRUE
                          THEN pendingRequests \ {tasks[i].key} ELSE pendingRequests
    /\ UNCHANGED <<now, ticks, requestResults, handlers, keyIn, keyOut, streamCalls, codec>>

\* server.js:2850-2863: the scheduled callback moves on to st; when the
\* submission has returned or thrown, its finally deletes the key.
TrackCompleted(i, st) ==
    /\ tasks' = [tasks EXCEPT ![i].pc = st.pc, ![i].body = st.body, ![i].result = st.result]
    /\ posts' = posts \o Issued(i, st)
    /\ pendingRequests' = IF st.pc = "done" THEN pendingRequests \ {tasks[i].key} ELSE pendingRequests
    /\ UNCHANGED <<now, ticks, requestResults, handlers, keyIn, keyOut, streamCalls, codec>>

\* server.js:2850-2852: the timer of scheduled submission i fires and the
\* submission runs to its first await.
TrackTimerFires(i) ==
    /\ tasks[i].fn = "makeOverseerrRequestTracked"
    /\ tasks[i].pc = "timer"
    /\ TrackCompleted(i, makeOverseerrRequestTracked(tasks[i].args))

\* server.js:2641-2684, 2853-2863: the POST of submission i settles, the
\* submission returns its result and the callback ends.
TrackPostSettles(i, r) ==
    /\ tasks[i].fn = "makeOverseerrRequestTracked"
    /\ tasks[i].pc = "post"
    /\ TrackCompleted(i, makeOverseerrRequestPost(tasks[i].args, tasks[i], r))

-----------------------------------------------------------------------------
(* Direct invocations of the clients *)

\* A caller invokes client fn with arguments a; the call runs to its first await.
Submit(fn, a) ==
    /\ Len(tasks) < MaxSubmits
    /\ LET st == ClientStart(fn, a)
       IN  /\ tasks' = Append(tasks, Task(fn, "", now, a, st))
           /\ posts' = posts \o Issued(Len(tasks) + 1, st)
    /\ UNCHANGED <<now, ticks, pendingRequests, requestResults, handlers, keyIn, keyOut, streamCalls, codec>>

-----------------------------------------------------------------------------
(* The request keys of two trigger calls *)

ComputeKeys ==
    /\ keyOut = <<>>
    /\ keyOut' = [proxy |-> <<requestKey(DecodedConfig[keyIn[1].config], keyIn[1]),
                              requestKey(DecodedConfig[keyIn[2].config], keyIn[2])>>,
                  video |-> <<videoRequestKey(keyIn[1]), videoRequestKey(keyIn[2])>>]
    /\ UNCHANGED <<now, ticks, pendingRequests, requestResults, tasks, posts, handlers, keyIn, streamCalls, codec>>

-----------------------------------------------------------------------------
(* Specifications *)

Init ==
    /\ now = StartTime
    /\ ticks = 0
    /\ pendingRequests = <<>>
    /\ requestResults = <<>>
    /\ tasks = <<>>
    /\ posts = <<>>
    /\ handlers = <<>>
    /\ keyIn = <<>>
    /\ keyOut = <<>>
    /\ streamCalls = <<>>
    /\ codec = NoCodec

\* The cooldown over time: repeated triggers for a whole series, the clock,
\* the cleanup and the background submissions.  The answer of a call changes
\* nothing of this and is left to SpecRespond.
Next ==
    \/ ProxyWait(SeriesQuery, undefined)
    \/ Cleanup
    \/ \E d \in Deltas : Tick(d)
    \/ \E i \in 1..Len(tasks), r \in TmdbAnswers : TmdbSettles(i, r)
    \/ \E i \in 1..Len(tasks), r \in PostAnswers : PostSettles(i, r)

Spec == Init /\ [][Next]_vars

\* The answers of the trigger calls, next to the background submissions.
NextRespond ==
    \/ \E q \in {MovieQuery, SeriesQuery}, range \in {undefined, "bytes=1000-"} :
          Len(handlers) < MaxAnswered /\ ProxyWait(q, range)
    \/ \E h \in 1..Len(handlers), cdn \in {"ok", "throw"} : ProxyRespond(h, cdn)
    \/ \E i \in 1..Len(tasks), r \in TmdbAnswers : TmdbSettles(i, r)
    \/ \E i \in 1..Len(tasks), r \in PostAnswers : PostSettles(i, r)

SpecRespond == Init /\ [][NextRespond]_vars

\* The fetch of the hosted video settles, with the video or with a fault;
\* nothing is assumed of the TMDB lookup and of the POST.
FairRespond ==
    SpecRespond /\ WF_vars(\E h \in 1..Len(handlers), cdn \in {"ok", "throw"} : ProxyRespond(h, cdn))

\* Trigger calls that lack what a submission needs, next to one that lacks
\* nothing, with their answers and the background submissions.
NextInvalid ==
    \/ \E q \in InvalidQueries \cup {SeriesQuery} :
          Len(handlers) < MaxAnswered /\ ProxyWait(q, undefined)
    \/ \E h \in 1..Len(handlers), cdn \in {"ok", "throw"} : ProxyRespond(h, cdn)
    \/ \E i \in 1..Len(tasks), r \in TmdbAnswers : TmdbSettles(i, r)
    \/ \E i \in 1..Len(tasks), r \in PostAnswers : PostSettles(i, r)

SpecInvalid == Init /\ [][NextInvalid]_vars

\* The fetch of the hosted video settles, with the video or with a fault.
FairInvalid ==
    SpecInvalid /\ WF_vars(\E h \in 1..Len(handlers), cdn \in {"ok", "throw"} : ProxyRespond(h, cdn))

\* Trigger calls of every kind, one second apart at most.
NextTrigger ==
    \/ \E q \in Queries, range \in Ranges : Len(handlers) < MaxTriggers /\ ProxyWait(q, range)
    \/ Tick(1000)
    \/ \E i \in 1..Len(tasks), r \in TmdbAnswers : TmdbSettles(i, r)
    \/ \E i \in 1..Len(tasks), r \in PostAnswers : PostSettles(i, r)

SpecTrigger == Init /\ [][NextTrigger]_vars

\* The configured video route.
NextVideo ==
    \/ \E q \in VideoQueries, range \in Ranges, localFile \in BOOLEAN :
          Len(handlers) < MaxTriggers /\ ConfiguredVideo(q, range, localFile)
    \/ \E i \in 1..Len(tasks), r \in TmdbAnswers : TmdbSettles(i, r)
    \/ \E i \in 1..Len(tasks), r \in PostAnswers : PostSettles(i, r)

SpecVideo == Init /\ [][NextVideo]_vars

\* The configured video route over hours: calls from the start of the
\* video, their submissions answered, failing or timing out.
NextVideoOnce ==
    \/ \E q \in VideoQueries :
          Len(handlers) < MaxTriggers /\ ConfiguredVideo(q, undefined, TRUE)
    \/ Tick(ONE_HOUR)
    \/ \E i \in 1..Len(tasks), r \in TmdbAnswers : TmdbSettles(i, r)
    \/ \E i \in 1..Len(tasks), r \in PostAnswers : PostSettles(i, r)
    \/ \E i \in 1..Len(tasks) : PostTimeout(i)

SpecVideoOnce == Init /\ [][NextVideoOnce]_vars

\* The clients, invoked directly.
NextSubmit ==
    \/ \E asked \in Asked, setup \in Setups : Submit(setup[1], SubmitArgs(asked, setup))
    \/ \E i \in 1..Len(tasks), r \in TmdbLookups : TmdbSettles(i, r)
    \/ \E i \in 1..Len(tasks), r \in PostAnswers : HttpsSettles(i, r)
    \/ \E i \in 1..Len(tasks), r \in PostAnswers : PostSettles(i, r)
    \/ \E i \in 1..Len(tasks) : PostTimeout(i)

SpecSubmit == Init /\ [][NextSubmit]_vars

\* Timers fire: a POST that has a timer is answered or aborted.  Nothing is
\* assumed of the remote servers, which may never answer.
FairSubmit == SpecSubmit /\ WF_vars(\E i \in 1..Len(tasks) : PostTimeout(i))

\* The stream listing route.
NextStream ==
    \/ \E config \in StreamConfigs, type \in StreamTypes, id \in StreamIds :
          Len(streamCalls) < MaxListings /\ StreamRequest(config, type, id)
    \/ \E k \in 1..Len(streamCalls), r \in FindAnswers : StreamFindSettles(k, r)
    \/ \E k \in 1..Len(streamCalls), r \in DetailsAnswers : StreamDetailsSettles(k, r)

SpecStream == Init /\ [][NextStream]_vars

\* The cleanup next to the triggers of two keys and the clock.  The
\* submissions stay under way: their answers change nothing in the table.
NextCleanup ==
    \/ \E q \in {MovieQuery, SeriesQuery} : ProxyWait(q, undefined)
    \/ Cleanup
    \/ \E d \in Deltas : Tick(d)

SpecCleanup == Init /\ [][NextCleanup]_vars

\* What the codec is given: a configuration to encode or a token to decode.
CodecInputs ==
    { Codec("config", pair, c, "", nullConfig) : pair \in CodecPairs, c \in CodecConfigs }
    \cup { Codec("token", pair, nullConfig, t, nullConfig) : pair \in CodecPairs, t \in RawTokens }

\* A configuration or a token goes through the codec; the route of
\* part_000 is called with the token.
InitCodec ==
    /\ now = StartTime
    /\ ticks = 0
    /\ pendingRequests = <<>>
    /\ requestResults = <<>>
    /\ tasks = <<>>
    /\ posts = <<>>
    /\ handlers = <<>>
    /\ keyIn = <<>>
    /\ keyOut = <<>>
    /\ streamCalls = <<>>
    /\ codec \in CodecInputs

NextCodec ==
    \/ Encode
    \/ Decode
    \/ \E type \in StreamTypes, id \in InlineIds :
          Len(streamCalls) < MaxListings /\ InlineStreamRequest(type, id)
    \/ \E k \in 1..Len(streamCalls), r \in InlineFindAnswers : InlineFindSettles(k, r)

SpecCodec == InitCodec /\ [][NextCodec]_vars

\* The playback calls of the variant with the Set of request keys.
InitTrack ==
    /\ now = StartTime
    /\ ticks = 0
    /\ pendingRequests = {}
    /\ requestResults = <<>>
    /\ tasks = <<>>
    /\ posts = <<>>
    /\ handlers = <<>>
    /\ keyIn = <<>>
    /\ keyOut = <<>>
    /\ streamCalls = <<>>
    /\ codec = NoCodec

NextTrack ==
    \/ \E q \in TrackQueries : TrackPlayback(q)
    \/ \E i \in 1..Len(tasks) : TrackTimerFires(i)
    \/ \E i \in 1..Len(tasks), r \in PostAnswers : TrackPostSettles(i, r)

SpecTrack == InitTrack /\ [][NextTrack]_vars

\* The request keys, as functions of two trigger calls.
InitKey ==
    /\ now = StartTime
    /\ ticks = 0
    /\ pendingRequests = <<>>
    /\ requestResults = <<>>
    /\ tasks = <<>>
    /\ posts = <<>>
    /\ handlers = <<>>
    /\ keyIn \in KeyQueries \X KeyQueries
    /\ keyOut = <<>>
    /\ streamCalls = <<>>
    /\ codec = NoCodec

SpecKey == InitKey /\ [][ComputeKeys]_vars

-----------------------------------------------------------------------------
(* Properties *)

\* The POSTs that background submission i has issued.
PostsOf(i) == {p \in 1..Len(posts) : posts[p].task = i}

\* What a submission asks the request server for, as its client reads the
\* arguments: a movie, one season, or the whole series.
ScopeOf(a) ==
    IF a.type = "movie" THEN [kind |-> "Movie", season |-> null]
    ELSE IF a.type = "series" /\ RequestTypeOf(a) = "season" /\ a.seasonNumber # null
    THEN [kind |-> "Season", season |-> a.seasonNumber]
    ELSE IF a.type = "series" /\ RequestTypeOf(a) = "series"
    THEN [kind |-> "WholeSeries", season |-> null]
    ELSE [kind |-> "Other", season |-> null]

\* The handler calls that looked at the table.
Eligible(h) == handlers[h].outcome \in {"dispatched", "skipped"}

\* The last call before h that dispatched a submission for the key of h;
\* 0 when there is none.
LastDispatch(h) ==
    LET earlier == {g \in 1..(h - 1) : handlers[g].key = handlers[h].key
                                       /\ handlers[g].outcome = "dispatched"}
    IN  IF earlier = {} THEN 0 ELSE CHOOSE g \in earlier : \A k \in earlier : k <= g

\* C1: over any sequence of from-the-start GET /proxy-wait calls, the
\* submissions started for one request key are more than the cooldown
\* apart, and each of them issues at most one POST: within a window as long
\* as the cooldown there is at most one submission, in flight or completed,
\* and at most one POST per key.
C1_OneSubmissionPerWindow ==
    /\ \A i, j \in 1..Len(tasks) :
          (i < j /\ tasks[i].key = tasks[j].key) => tasks[j].at - tasks[i].at > FIVE_MINUTES
    /\ \A i \in 1..Len(tasks) : Cardinality(PostsOf(i)) <= 1

\* Three calls for one key within the cooldown, the POST of the one
\* submission issued and answered.
C1_Witness ==
    /\ Len(handlers) >= 3
    /\ handlers[1].key = handlers[2].key /\ handlers[2].key = handlers[3].key
    /\ handlers[3].at - handlers[1].at <= FIVE_MINUTES
    /\ handlers[3].at > handlers[1].at
    /\ Len(tasks) = 1 /\ tasks[1].pc = "done" /\ Cardinality(PostsOf(1)) = 1

\* The length of the Range header's prefix "bytes=".
BytesPrefixLen == Len("bytes=")

\* The start offset of a Range header, read as serveVideo reads it.
RangeStart(range) ==
    parseInt(IF startsWith(range, "bytes=") THEN SubSeq(range, BytesPrefixLen + 1, Len(range))
             ELSE range)

\* C2: a trigger call whose Range header has a nonzero start offset neither
\* looks at the table of requests nor writes to it nor starts a submission.
C2_RangeCallsTouchNothing ==
    \A h \in 1..Len(handlers) :
        (Truthy(handlers[h].range) /\ RangeStart(handlers[h].range) > 0)
            => (~Eligible(h) /\ handlers[h].task = 0)

\* C3: a from-the-start call that comes less than the cooldown after the
\* last dispatch for its key (so one that comes a second after it) starts no
\* submission; one that comes more than the cooldown after it, or that is
\* the first for its key, starts one.
C3_SuppressedThenDispatchedAgain ==
    \A h \in 1..Len(handlers) :
        Eligible(h) =>
            LET d == LastDispatch(h)
            IN  /\ d = 0 => handlers[h].outcome = "dispatched"
                /\ (d # 0 /\ handlers[h].at - handlers[d].at < FIVE_MINUTES)
                      => handlers[h].outcome = "skipped"
                /\ (d # 0 /\ handlers[h].at - handlers[d].at > FIVE_MINUTES)
                      => handlers[h].outcome = "dispatched"

\* Two calls a second apart with one submission, and a third call after the
\* cooldown with a second submission.
C3_Witness ==
    /\ Len(handlers) = 3 /\ Len(tasks) = 2
    /\ handlers[2].key = handlers[1].key /\ handlers[3].key = handlers[1].key
    /\ handlers[1].outcome = "dispatched"
    /\ handlers[2].at = handlers[1].at + 1000 /\ handlers[2].outcome = "skipped"
    /\ handlers[3].at > handlers[1].at + FIVE_MINUTES /\ handlers[3].outcome = "dispatched"
    /\ Cardinality(PostsOf(1)) = 1 /\ Cardinality(PostsOf(2)) = 1

C5_CompletionKeepsEntry ==
    [][ /\ \A i \in 1..Len(tasks) :
              (tasks[i].pc # "done" /\ tasks'[i].pc = "done")
                  => /\ pendingRequests' = pendingRequests
                     /\ Len(tasks') = Len(tasks)
                     /\ posts' = posts
        /\ Len(handlers') > Len(handlers) =>
              LET h == handlers'[Len(handlers')]
              IN  (/\ h.outcome \in {"dispatched", "skipped"}
                   /\ \E i \in 1..Len(tasks) :
                         /\ tasks[i].key = h.key
                         /\ tasks[i].pc = "done"
                         /\ h.at - tasks[i].at < FIVE_MINUTES)
                      => (h.outcome = "skipped" /\ pendingRequests' = pendingRequests) ]_vars

\* A submission that failed, its entry still in the table, and a call that
\* came later, within the cooldown, and was suppressed.
C5_Witness ==
    \E h \in 1..Len(handlers) :
        /\ handlers[h].outcome = "skipped"
        /\ LastDispatch(h) # 0
        /\ handlers[h].at > handlers[LastDispatch(h)].at
        /\ LET i == handlers[LastDispatch(h)].task
           IN  /\ tasks[i].pc = "done"
               /\ tasks[i].result.success = FALSE
               /\ tasks[i].key \in DOMAIN pendingRequests
               /\ pendingRequests[tasks[i].key] = tasks[i].at

\* Two trigger calls for the same title under the same configuration.
SameTitle(q1, q2) == q1.config = q2.config /\ q1.type = q2.type /\ q1.tmdbId = q2.tmdbId

\* Two calls of which one asks for a season and the other for the whole
\* series or for another season, a being the arguments their submissions get.
ScopesApart(a1, a2) ==
    /\ ScopeOf(a1).kind \in {"Season", "WholeSeries"}
    /\ ScopeOf(a2).kind \in {"Season", "WholeSeries"}
    /\ ScopeOf(a1) # ScopeOf(a2)

\* C6: two trigger calls for the same title of which one asks for a season
\* and the other for the whole series or for another season have different
\* request keys, under /proxy-wait and under the configured video route.
C6_ScopesHaveDistinctKeys ==
    keyOut # <<>> =>
        (SameTitle(keyIn[1], keyIn[2]) =>
            /\ ScopesApart(ProxyArgs(DecodedConfig[keyIn[1].config], keyIn[1]),
                           ProxyArgs(DecodedConfig[keyIn[2].config], keyIn[2]))
                  => keyOut.proxy[1] # keyOut.proxy[2]
            /\ ScopesApart(VideoArgs(DecodedUnpadded[keyIn[1].config], keyIn[1]),
                           VideoArgs(DecodedUnpadded[keyIn[2].config], keyIn[2]))
                  => keyOut.video[1] # keyOut.video[2])

\* The keys of a call for season 1 and of a call for the whole series,
\* computed and different.
C6_Witness ==
    /\ keyOut # <<>>
    /\ SameTitle(keyIn[1], keyIn[2])
    /\ ScopeOf(ProxyArgs(DecodedConfig[keyIn[1].config], keyIn[1])) = [kind |-> "Season", season |-> 1]
    /\ ScopeOf(ProxyArgs(DecodedConfig[keyIn[2].config], keyIn[2])).kind = "WholeSeries"
    /\ ScopeOf(VideoArgs(DecodedUnpadded[keyIn[1].config], keyIn[1])) = [kind |-> "Season", season |-> 1]
    /\ ScopeOf(VideoArgs(DecodedUnpadded[keyIn[2].config], keyIn[2])).kind = "WholeSeries"
    /\ keyOut.proxy[1] # keyOut.proxy[2]
    /\ keyOut.video[1] # keyOut.video[2]

\* C7: two from-the-start calls that ask the same request server, with the
\* same API key, for the same title and the same scope (their submissions
\* POST the same body to the same URL) are not both dispatched within the
\* cooldown, whatever episode, requestType spelling or trailing slash of the
\* server URL they carry.
C7_SameIntentCollides ==
    \A i, j \in 1..Len(tasks) :
        (/\ i < j
         /\ ScopeOf(tasks[i].args) = ScopeOf(tasks[j].args)
         /\ \E p \in PostsOf(i), r \in PostsOf(j) :
               /\ posts[p].url = posts[r].url
               /\ posts[p].apiKey = posts[r].apiKey
               /\ posts[p].body = posts[r].body)
            => tasks[j].at - tasks[i].at > FIVE_MINUTES

\* C8: every POST of makeOverseerrRequest carries the TMDB id and the media
\* kind; for a movie it has no seasons; for season n it has seasons [n]; for
\* the whole series, after a season lookup that succeeded, it has the season
\* numbers above 0 of the answer, in order.
C8_PayloadFollowsIntent ==
    \A p \in 1..Len(posts) :
        LET t == tasks[posts[p].task]
            body == posts[p].body
        IN  t.fn = "makeOverseerrRequest" =>
                /\ body.mediaId = parseInt(t.args.tmdbId)
                /\ body.mediaType = (IF t.args.type = "movie" THEN "movie" ELSE "tv")
                /\ ScopeOf(t.args).kind = "Movie" => "seasons" \notin DOMAIN body
                /\ ScopeOf(t.args).kind = "Season"
                      => ("seasons" \in DOMAIN body /\ body.seasons = <<t.args.seasonNumber>>)
                /\ (ScopeOf(t.args).kind = "WholeSeries" /\ t.tmdb.kind = "ok")
                      => /\ "seasons" \in DOMAIN body
                         /\ body.seasons = SelectSeq(t.tmdb.seasons, LAMBDA n : n > 0)

\* The whole series asked for, TMDB answering seasons 0, 1, 2, 3, and the
\* POST issued with seasons 1, 2, 3.
C8_Witness ==
    \E p \in 1..Len(posts) :
        /\ tasks[posts[p].task].fn = "makeOverseerrRequest"
        /\ ScopeOf(tasks[posts[p].task].args).kind = "WholeSeries"
        /\ tasks[posts[p].task].tmdb = [kind |-> "ok", seasons |-> <<0, 1, 2, 3>>]
        /\ posts[p].body.seasons = <<1, 2, 3>>

\* C9: when the whole series is asked for and the season lookup fails or
\* cannot be made, the POST of makeOverseerrRequest and of
\* makeConfiguredOverseerrRequest has seasons [1].
C9_LookupFailureAsksSeasonOne ==
    \A p \in 1..Len(posts) :
        LET t == tasks[posts[p].task]
        IN  (/\ t.fn \in {"makeOverseerrRequest", "makeConfiguredOverseerrRequest"}
             /\ ScopeOf(t.args).kind = "WholeSeries"
             /\ t.tmdb.kind # "ok")
                => ("seasons" \in DOMAIN posts[p].body /\ posts[p].body.seasons = <<1>>)

\* C10: one invocation of a client issues at most one POST.
C10_OnePostPerInvocation ==
    \A i \in 1..Len(tasks) : Cardinality(PostsOf(i)) <= 1

\* The two variants of the submit function the trigger calls start.
SubmitFunctions == {"makeOverseerrRequest", "makeOverseerrRequestFirst"}

\* The result reports the answer r of the POST: success with the request id
\* for a 2xx answer, a failure with the status and the body for any other
\* answer, a failure with the message for a fault.
Reports(result, r) ==
    /\ "success" \in DOMAIN result
    /\ r.kind = "ok" =>
          /\ result.success = TRUE
          /\ "requestId" \in DOMAIN result /\ result.requestId = r.id
    /\ r.kind = "notok" =>
          /\ result.success = FALSE
          /\ "status" \in DOMAIN result /\ result.status = r.status
          /\ "error" \in DOMAIN result /\ result.error = r.text
    /\ r.kind = "throw" =>
          /\ result.success = FALSE
          /\ "error" \in DOMAIN result /\ result.error = r.message

\* C11: every invocation of the submit function that returns, returns a
\* result value (a value with a success field); when it returns after the
\* answer of its POST, the result reports that answer: the request id of a
\* 2xx answer, the status and the body of any other answer, the message of
\* a fault.
C11_EveryOutcomeIsAResult ==
    [][ /\ \A i \in 1..Len(tasks') :
              (tasks'[i].fn \in SubmitFunctions /\ tasks'[i].pc = "done")
                 => "success" \in DOMAIN tasks'[i].result
        /\ \A i \in 1..Len(tasks), r \in PostAnswers :
              (tasks[i].fn \in SubmitFunctions /\ PostSettles(i, r))
                 => Reports(tasks'[i].result, r) ]_vars

\* C12: every submission that was started eventually returns, whether or
\* not the remote servers answer.
C12_EverySubmissionReturns ==
    \A i \in 1..MaxSubmits :
        [](Len(tasks) >= i => <>(Len(tasks) >= i /\ tasks[i].pc = "done"))

\* The fixed path of the request API and what precedes it in a POST URL.
ApiPath == "/api/v1/request"
BaseOf(url) == SubSeq(url, 1, Len(url) - Len(ApiPath))

\* C13: every POST of the submit function goes to base + "/api/v1/request"
\* where base is the configured URL without its trailing slashes: base does
\* not end with '/', and stripping it again changes nothing.
C13_BaseHasNoTrailingSlash ==
    \A p \in 1..Len(posts) :
        tasks[posts[p].task].fn \in SubmitFunctions =>
            LET base == BaseOf(posts[p].url)
            IN  /\ posts[p].url = base \o ApiPath
                /\ Len(base) > 0 /\ CharAt(base, Len(base)) # "/"
                /\ StripTrailingSlash(base) = base

\* The number of colons of an id, and whether a segment is written as a
\* decimal integer.
Colons(id) == Cardinality({i \in 1..Len(id) : CharAt(id, i) = ":"})
IsInteger(seg) ==
    AllDigits(seg) \/ (startsWith(seg, "-") /\ AllDigits(SubSeq(seg, 2, Len(seg))))

\* The stream listing calls that got as far as parsing their id.
Parsed == {k \in 1..Len(streamCalls) : DecodedConfig[streamCalls[k].config] # nullConfig}

\* C14: what parseStremioId gives for (type, id): for a movie id that starts
\* with tt, the IMDb id and no season or episode; for a series id with two
\* colons, the first segment as IMDb id with the season and the episode
\* (their values, where the segments are written as integers); for a series
\* id that starts with tt and has no colon, the IMDb id and no season or
\* episode; otherwise, for an id of digits only, the TMDB id of that value;
\* for any other id, null.  No result has an episode without a season.
C14_ParsingRule ==
    \A k \in Parsed :
        LET id   == streamCalls[k].id
            type == streamCalls[k].type
            p    == streamCalls[k].parsedId
            seg  == split(id)
            external == [imdbId |-> id, season |-> null, episode |-> null]
        IN  /\ IF type = "movie" /\ startsWith(id, "tt") THEN p = external
               ELSE IF type = "series" /\ Colons(id) = 2
               THEN /\ DOMAIN p = {"imdbId", "season", "episode"}
                    /\ p.imdbId = seg[1]
                    /\ IsInteger(seg[2]) => NumStr(p.season) = seg[2]
                    /\ IsInteger(seg[3]) => NumStr(p.episode) = seg[3]
               ELSE IF type = "series" /\ Colons(id) = 0 /\ startsWith(id, "tt") THEN p = external
               ELSE IF AllDigits(id)
               THEN /\ DOMAIN p = {"tmdbId", "season", "episode"}
                    /\ NumStr(p.tmdbId) = id
                    /\ p.season = null /\ p.episode = null
               ELSE p = nullParsedId
            /\ (p # nullParsedId /\ p.episode # null) => p.season # null

\* The id tt1:1:2 of a series parsed to tt1, season 1, episode 2.
C14_Witness ==
    \E k \in Parsed :
        /\ streamCalls[k].type = "series" /\ streamCalls[k].id = "tt1:1:2"
        /\ streamCalls[k].parsedId = [imdbId |-> "tt1", season |-> 1, episode |-> 2]

\* C15: a series id with two colons whose season or episode segment is not
\* written as an integer is not parsed (parseStremioId gives null), and the
\* call answers with no stream.
C15_BadIntegerIsUnsupported ==
    \A k \in Parsed :
        LET c == streamCalls[k]
            seg == split(c.id)
        IN  (c.type = "series" /\ Colons(c.id) = 2 /\ ~(IsInteger(seg[2]) /\ IsInteger(seg[3])))
               => /\ c.parsedId = nullParsedId
                  /\ c.pc = "done" /\ c.response = StreamsResponse(<<>>)

\* The lookup by IMDb id answered, and TMDB has no match.
NoMatch == [kind |-> "ok", results |-> <<>>]

\* C16: when the lookup by IMDb id finds no match, the stream listing call
\* answers with the empty list of streams, and the step writes no entry
\* into the tables and starts no submission.
C16_NoMatchListsNothing ==
    [][ \A k \in 1..Len(streamCalls) :
           StreamFindSettles(k, NoMatch)
              => /\ streamCalls'[k].pc = "done"
                 /\ streamCalls'[k].response = StreamsResponse(<<>>)
                 /\ UNCHANGED <<pendingRequests, requestResults, tasks, posts>> ]_vars

\* A call for tt1 that was answered "no match" and has listed no stream.
C16_Witness ==
    \E k \in 1..Len(streamCalls) :
        /\ streamCalls[k].id = "tt1" /\ streamCalls[k].lookup = NoMatch
        /\ streamCalls[k].pc = "done" /\ streamCalls[k].response = StreamsResponse(<<>>)
        /\ pendingRequests = <<>> /\ tasks = <<>>

\* The streams of call k are those of TMDB id tmdbId under the title that
\* names the id as it was given.
ListedById(k, tmdbId) ==
    LET c == streamCalls[k]
    IN  /\ c.pc = "done" /\ Len(c.response.streams) >= 1
        /\ \A j \in 1..Len(c.response.streams) :
              /\ c.response.streams[j].url.tmdbId = NumStr(tmdbId)
              /\ c.response.streams[j].url.title = "ID: " \o c.id

\* C17: when the id is a TMDB id and the lookup of its title answers
\* non-2xx or fails, the call still lists the streams of that id, under the
\* title "ID: <id>".
C17_TitleLookupMayFail ==
    \A k \in Parsed :
        LET c == streamCalls[k]
        IN  ("tmdbId" \in DOMAIN c.parsedId /\ c.lookup.kind \in {"notok", "throw"})
               => ListedById(k, c.parsedId.tmdbId)

\* The three required fields are there and none is empty.
RequiredFields == {"tmdbKey", "overseerrUrl", "overseerrApi"}
HasRequiredFields(c) == \A f \in RequiredFields : f \in DOMAIN c /\ Truthy(c[f])

\* C18: for every configuration with three non-empty fields, decoding the
\* token that the encoder made of it gives the configuration back: the same
\* three values and no other field.
C18_DecodeOfEncodeIsIdentity ==
    (codec.stage = "decoded" /\ codec.config # nullConfig /\ HasRequiredFields(codec.config))
        => codec.decoded = codec.config

\* The raw tokens that are not the encoding of a configuration with three
\* non-empty fields.
BadTokens == RawTokens \ {UnpaddedToken}

\* C19: decodeConfig gives either a configuration with the three fields,
\* none empty, or null; it gives null for a token that is not base64, not
\* JSON, or lacks a field or has an empty one.  A route that decodes the
\* token itself answers with an error unless it got such a configuration.
C19_ConfigOrError ==
    /\ codec.stage = "decoded" =>
          /\ codec.decoded = nullConfig \/ HasRequiredFields(codec.decoded)
          /\ codec.token \in BadTokens => codec.decoded = nullConfig
          /\ (codec.config # nullConfig /\ ~HasRequiredFields(codec.config))
                => codec.decoded = nullConfig
    /\ \A k \in 1..Len(streamCalls) :
          (streamCalls[k].pc = "done" /\ streamCalls[k].response # InternalError)
             => HasRequiredFields(streamCalls[k].userConfig)

\* The age of the entry of key k in the table as it is after the step.
AgeAfter(k) == now' - pendingRequests'[k]

\* C20: a cleanup leaves no entry in the table that is older than the five
\* minutes a dispatch suppresses its key for, and removes no younger one.
C20_CleanupLeavesNoOldEntry ==
    [][ Cleanup =>
          /\ \A k \in DOMAIN pendingRequests' : AgeAfter(k) <= FIVE_MINUTES
          /\ \A k \in DOMAIN pendingRequests :
                now - pendingRequests[k] <= FIVE_MINUTES => k \in DOMAIN pendingRequests' ]_vars

\* A stream listing call that got a TMDB id and a title and built its list.
Resolved(c) ==
    c.pc = "done" /\ TruthyNum(c.tmdbId) /\ c.lookup.kind \in {"ok", "notok"}

\* The id names an episode: a season and an episode, written as integers.
IsEpisodeId(id) ==
    Colons(id) = 2 /\ IsInteger(split(id)[2]) /\ IsInteger(split(id)[3])

\* C21: a stream listing call that resolved the id of an episode of a
\* series (season and episode present) lists exactly two streams, the first
\* requesting that season and the second the entire series; one that
\* resolved a movie lists exactly one stream, requesting the movie.  No step
\* of a stream listing call writes a table or starts a submission.
C21_EpisodeListsSeasonAndSeries ==
    [][ /\ \A k \in 1..Len(streamCalls') :
              LET c == streamCalls'[k]
                  s == c.response.streams
              IN  Resolved(c) =>
                     /\ (c.type = "series" /\ IsEpisodeId(c.id)) =>
                           /\ Len(s) = 2
                           /\ s[1].url.type = "series" /\ s[1].url.requestType = "season"
                           /\ s[1].url.season = split(c.id)[2]
                           /\ s[2].url.type = "series" /\ s[2].url.requestType = "series"
                           /\ s[2].url.season = ""
                     /\ c.type = "movie" =>
                           /\ Len(s) = 1
                           /\ s[1].url.type = "movie" /\ s[1].url.requestType = "movie"
        /\ streamCalls' # streamCalls
              => UNCHANGED <<pendingRequests, requestResults, tasks, posts>> ]_vars

\* C22: the handler looks its key up and writes the entry in one step, the
\* step in which it starts the submission: a call that dispatches leaves
\* the entry of its key at the time of the call, and of the calls for one
\* key that come at the same time, or within the cooldown of a dispatch,
\* be the entry absent or expired before them, only one dispatches.
C22_LookupAndWriteInOneStep ==
    [][ Len(handlers') > Len(handlers) =>
          LET h == handlers'[Len(handlers')]
          IN  /\ h.outcome = "dispatched" =>
                    /\ h.key \in DOMAIN pendingRequests'
                    /\ pendingRequests'[h.key] = h.at
                    /\ tasks'[h.task].at = h.at
              /\ \A g \in 1..Len(handlers) :
                    (/\ handlers[g].key = h.key
                     /\ handlers[g].outcome = "dispatched"
                     /\ h.at - handlers[g].at <= FIVE_MINUTES)
                        => h.outcome = "skipped" ]_vars

\* A call that found the entry expired and dispatched, its submission
\* still under way, and a call for the same key at the same time that was
\* suppressed.
C22_Witness ==
    /\ Len(handlers) = 3
    /\ handlers[1].outcome = "dispatched"
    /\ handlers[2].key = handlers[1].key /\ handlers[2].at > handlers[1].at + FIVE_MINUTES
    /\ handlers[2].outcome = "dispatched" /\ tasks[handlers[2].task].pc # "done"
    /\ handlers[3].key = handlers[2].key /\ handlers[3].at = handlers[2].at
    /\ handlers[3].outcome = "skipped"

\* C23: a call whose key has an entry as old as the cooldown or older is
\* treated as one without entry and dispatches, the entry written anew; one
\* whose entry is younger is suppressed.  So a call that comes exactly the
\* cooldown after the entry was written dispatches.
C23_BoundaryOfTheCooldown ==
    \A h \in 1..Len(handlers) :
        (Eligible(h) /\ LastDispatch(h) # 0) =>
            LET age == handlers[h].at - handlers[LastDispatch(h)].at
            IN  /\ age >= FIVE_MINUTES =>
                      /\ handlers[h].outcome = "dispatched"
                      /\ tasks[handlers[h].task].at = handlers[h].at
                /\ age < FIVE_MINUTES => handlers[h].outcome = "skipped"

\* C24: however the cleanups interleave with the trigger calls, a cleanup
\* removes no entry that is still within the cooldown of its dispatch and
\* leaves its value as it is, and no call dispatches for a key within the
\* cooldown of an earlier dispatch for it.
C24_CleanupKeepsLiveEntries ==
    [][ /\ Cleanup =>
              \A k \in DOMAIN pendingRequests :
                  now - pendingRequests[k] <= FIVE_MINUTES
                      => (k \in DOMAIN pendingRequests' /\ pendingRequests'[k] = pendingRequests[k])
        /\ Len(tasks') > Len(tasks) =>
              \A i \in 1..Len(tasks) :
                  tasks[i].key = tasks'[Len(tasks')].key
                      => tasks'[Len(tasks')].at - tasks[i].at > FIVE_MINUTES ]_vars

\* A cleanup has removed the entry of one key, older than an hour, while
\* the entry of another key was a second old; that entry is still there and
\* a call for its key, in the same second, was suppressed.
C24_Witness ==
    /\ Len(handlers) = 3 /\ Len(tasks) = 2
    /\ tasks[1].key \notin DOMAIN pendingRequests
    /\ tasks[2].key \in DOMAIN pendingRequests
    /\ pendingRequests[tasks[2].key] = tasks[2].at
    /\ tasks[2].at = tasks[1].at + ONE_HOUR
    /\ handlers[3].key = tasks[2].key /\ handlers[3].at = tasks[2].at + 1000
    /\ handlers[3].outcome = "skipped"

\* C25: an entry of the table is written once and deleted once: no step
\* changes the value stored under a key that stays in the table, an entry
\* leaves the table only when it is older than the cooldown, and a call
\* that dispatches finds no entry of its key in the table.
C25_WrittenOnceDeletedOnce ==
    [][ /\ \A k \in DOMAIN pendingRequests :
              /\ k \in DOMAIN pendingRequests' => pendingRequests'[k] = pendingRequests[k]
              /\ k \notin DOMAIN pendingRequests' => now - pendingRequests[k] > FIVE_MINUTES
        /\ Len(tasks') > Len(tasks) => tasks'[Len(tasks')].key \notin DOMAIN pendingRequests ]_vars

\* The last call that dispatched a submission for key k; 0 when there is none.
LastDispatchFor(k) ==
    LET all == {g \in 1..Len(handlers) : handlers[g].key = k /\ handlers[g].outcome = "dispatched"}
    IN  IF all = {} THEN 0 ELSE CHOOSE g \in all : \A j \in all : j <= g

\* C26: the step of a suppressed call leaves the table as it is, every key
\* and every timestamp, and starts nothing; so the timestamp stored under a
\* key is always the time of the last call that dispatched for it, never
\* that of a later, suppressed call.
C26_SuppressedCallLeavesTable ==
    [][ /\ Len(handlers') > Len(handlers) =>
              (handlers'[Len(handlers')].outcome = "skipped"
                  => (pendingRequests' = pendingRequests /\ tasks' = tasks /\ posts' = posts))
        /\ \A k \in DOMAIN pendingRequests' :
              pendingRequests'[k] = tasks'[handlers'[LastDispatchFor(k)'].task].at ]_vars

\* A dispatch, a call exactly the cooldown later that was suppressed, and a
\* call a second after that one which dispatched: more than the cooldown
\* after the dispatch, a second after the last call received.
C26_Witness ==
    /\ Len(handlers) = 3
    /\ handlers[2].key = handlers[1].key /\ handlers[3].key = handlers[1].key
    /\ handlers[1].outcome = "dispatched"
    /\ handlers[2].at = handlers[1].at + FIVE_MINUTES /\ handlers[2].outcome = "skipped"
    /\ handlers[3].at = handlers[2].at + 1000 /\ handlers[3].outcome = "dispatched"
    /\ pendingRequests[handlers[3].key] = handlers[3].at

\* What the request key of /proxy-wait is made of, as the handler puts it
\* into the key: the URL and the API key of the request server, the media
\* kind, the TMDB id, the season, the episode and the request type.
Components(q) ==
    <<DecodedConfig[q.config].overseerrUrl, DecodedConfig[q.config].overseerrApi,
      q.type, q.tmdbId, OrElse(q.season, ""), OrElse(q.episode, ""), OrElse(q.requestType, "auto")>>

\* C27: two trigger calls that differ in the URL or the API key of the
\* request server, the media kind, the TMDB id, the season, the episode or
\* the request type have different request keys.
C27_KeysAreInjective ==
    keyOut # <<>> =>
        (Components(keyIn[1]) # Components(keyIn[2]) => keyOut.proxy[1] # keyOut.proxy[2])

\* The call lacks what a submission needs: its token is empty or decodes to
\* no configuration, or it has no type, no TMDB id or no title.
LacksParameters(q) ==
    \/ ~Truthy(q.config) \/ DecodedConfig[q.config] = nullConfig
    \/ ~Truthy(q.type) \/ ~Truthy(q.tmdbId) \/ ~Truthy(q.title)

InFlight(k) == {i \in 1..Len(tasks) : tasks[i].key = k /\ tasks[i].pc # "done"}

\* C29: under /track-playback a key is in the set of pending requests
\* exactly while one submission for it is scheduled or running: the set
\* holds the keys with a submission under way, each with exactly one; a
\* call dispatches exactly when no submission for its key is under way;
\* and the step in which a submission completes, with a success, a failure
\* or an error, removes its key.
C29_PendingSetIsALock ==
    [][ /\ pendingRequests' = {tasks'[i].key : i \in {j \in 1..Len(tasks') : tasks'[j].pc # "done"}}
        /\ \A k \in pendingRequests' : Cardinality(InFlight(k)') = 1
        /\ Len(handlers') > Len(handlers) =>
              LET h == handlers'[Len(handlers')]
              IN  h.outcome \in {"dispatched", "skipped"}
                     => (h.outcome = "dispatched" <=> InFlight(h.key) = {})
        /\ \A i \in 1..Len(tasks) :
              (tasks[i].pc # "done" /\ tasks'[i].pc = "done")
                  => tasks[i].key \notin pendingRequests' ]_vars

\* A submission that failed, a call for its key that was suppressed while
\* it ran, and a call after it that dispatched again: the second submission
\* is under way and the key is in the set.
C29_Witness ==
    /\ Len(handlers) = 3 /\ Len(tasks) = 2
    /\ handlers[2].key = handlers[1].key /\ handlers[3].key = handlers[1].key
    /\ handlers[1].outcome = "dispatched" /\ handlers[2].outcome = "skipped"
    /\ handlers[3].outcome = "dispatched"
    /\ tasks[1].pc = "done" /\ tasks[1].result.success = FALSE
    /\ tasks[2].pc = "post"
    /\ pendingRequests = {handlers[1].key}

\* C30: under the configured video route a request key that is in
\* requestResults stays there, whatever time passes and whatever becomes of
\* its submission, and no two submissions are ever dispatched for one key:
\* a call whose key is there starts none, also after the submission of the
\* key failed or timed out.
C30_OneSubmissionPerKeyForever ==
    [][ /\ \A k \in DOMAIN requestResults : k \in DOMAIN requestResults'
        /\ \A i, j \in 1..Len(tasks') : i < j => tasks'[i].key # tasks'[j].key
        /\ Len(handlers') > Len(handlers) =>
              (handlers'[Len(handlers')].key \in DOMAIN requestResults
                   => (tasks' = tasks /\ posts' = posts /\ requestResults' = requestResults)) ]_vars

\* A submission that timed out, and a call for its key an hour later that
\* started no submission.
C30_Witness ==
    /\ Len(handlers) = 2 /\ Len(tasks) = 1
    /\ tasks[1].pc = "done"
    /\ tasks[1].result = [success |-> FALSE,
                          error |-> "Request timeout - Overseerr server took too long to respond"]
    /\ handlers[2].key = tasks[1].key /\ handlers[2].at >= tasks[1].at + ONE_HOUR
    /\ handlers[2].outcome = "skipped"
    /\ requestResults[tasks[1].key] = tasks[1].result

====
